---------------------------- MODULE Spec2Model ----------------------------
(***************************************************************************)
(* A model of covtool's drcov codec (src/covtool/drcov.py): the            *)
(* CoverageData document, its validate() method, the CoverageBuilder, the  *)
(* writer (_Writer) and the parser (_Parser, read() on a file path).       *)
(* Further sections model CoverageSet (src/covtool/core.py) and the edit   *)
(* command (src/covtool/cli.py).                                           *)
(*                                                                         *)
(* Python values are represented as follows.                               *)
(*   Optional[T]        None is <<>>, a present value x is <<x>>           *)
(*   List[T]            a sequence (Python index i is TLA+ index i+1)      *)
(*   str                a TLA+ string; a module path is the sequence of    *)
(*                      its comma-free segments (the text between commas)  *)
(*   exceptions         the "status" field of an operation's result        *)
(***************************************************************************)
EXTENDS Integers, Sequences, FiniteSets, TLC

VARIABLES
    doc,    \* the CoverageData object the operations act on (builder: _data)
    pre,    \* the value of doc before the last operation
    file,   \* the bytes of the file at the destination path, or NoFile
    rdoc,   \* the document returned by the last read(), or NoDoc
    out     \* the last operation: its name, arguments and outcome

vars == <<doc, pre, file, rdoc, out>>

----------------------------------------------------------------------------
(* Bounds of the model                                                     *)

MaxMods == 2        \* longest module list
MaxBlocks == 2      \* longest basic-block list
MaxId == 2          \* largest module id drawn for a module or a block

----------------------------------------------------------------------------
(* Python's Optional                                                       *)

None == <<>>
Some(x) == <<x>>
IsNone(o) == o = <<>>
Val(o) == o[1]

(* Python truthiness of an Optional[int] / Optional[list]: None, 0 and [] *)
(* are falsy.                                                              *)
TruthyInt(o) == o # None /\ Val(o) # 0
TruthyList(o) == o # None /\ Val(o) # <<>>

----------------------------------------------------------------------------
(* Constants of drcov.py                                                   *)

_SUPPORTED_FILE_VERSION == 2
_BB_ENTRY_SIZE == 8
_HIT_COUNT_ENTRY_SIZE == 4
_FLAVOR_STANDARD == "drcov"
_FLAVOR_WITH_HITS == "drcov-hits"

LEGACY == 1
V2 == 2
V3 == 3
V4 == 4
ModuleTableVersion == {LEGACY, V2, V3, V4}

----------------------------------------------------------------------------
(* Data model                                                              *)

ModuleEntry(id, base, end, path, entry, containing_id, offset, checksum, timestamp) ==
    [id |-> id, base |-> base, end |-> end, path |-> path, entry |-> entry,
     containing_id |-> containing_id, offset |-> offset,
     checksum |-> checksum, timestamp |-> timestamp]

BasicBlock(start, size, module_id) ==
    [start |-> start, size |-> size, module_id |-> module_id]

CoverageData(flavor, modules, basic_blocks, module_version, hit_counts) ==
    [version |-> _SUPPORTED_FILE_VERSION, flavor |-> flavor, modules |-> modules,
     basic_blocks |-> basic_blocks, module_version |-> module_version,
     hit_counts |-> hit_counts]

supports_hit_counts(d) == d.flavor = _FLAVOR_WITH_HITS

NoDoc == CoverageData("", <<>>, <<>>, V2, None)
NoFile == [exists |-> FALSE, text |-> <<>>, bin |-> None]
NoOp == [op |-> "none", status |-> "ok", permissive |-> FALSE]

Result(status, d) == [status |-> status, doc |-> d]

----------------------------------------------------------------------------
(* Sequence helpers                                                        *)

RECURSIVE IndicesWhere(_, _, _)
(* The increasing sequence of the indices i >= from of s with s[i] in keep *)
IndicesWhere(s, keep, from) ==
    IF from > Len(s) THEN <<>>
    ELSE IF s[from] \in keep THEN <<from>> \o IndicesWhere(s, keep, from + 1)
    ELSE IndicesWhere(s, keep, from + 1)

Pick(s, idx) == [k \in 1..Len(idx) |-> s[idx[k]]]

Ones(n) == [k \in 1..n |-> 1]

----------------------------------------------------------------------------
(* CoverageData.validate                                                   *)

ModuleIds(d) == {d.modules[i].id : i \in DOMAIN d.modules}

HasDuplicateIds(d) == Cardinality(ModuleIds(d)) # Len(d.modules)

InvalidBlocks(d) ==
    {i \in DOMAIN d.basic_blocks : d.basic_blocks[i].module_id \notin ModuleIds(d)}

ValidIndices(d) ==
    IndicesWhere([i \in DOMAIN d.basic_blocks |-> d.basic_blocks[i].module_id],
                 ModuleIds(d), 1)

(* Lines 197-204: the permissive filter.  basic_blocks is assigned before  *)
(* hit_counts is indexed, so an IndexError leaves the blocks filtered and  *)
(* the hit counts as they were.                                            *)
FilterInvalidBlocks(d) ==
    LET idx == ValidIndices(d)
        d1 == [d EXCEPT !.basic_blocks = Pick(d.basic_blocks, idx)]
    IN  IF InvalidBlocks(d) = {} THEN Result("ok", d)
        ELSE IF ~TruthyList(d.hit_counts) THEN Result("ok", d1)
        ELSE IF \E k \in DOMAIN idx : idx[k] > Len(Val(d.hit_counts))
             THEN Result("IndexError", d1)
        ELSE Result("ok", [d1 EXCEPT !.hit_counts = Some(Pick(Val(d.hit_counts), idx))])

(* Lines 206-223: the hit-count length check, with its permissive repair.  *)
RepairTruncBug(d, permissive) ==
    IF d.hit_counts = None \/ Len(Val(d.hit_counts)) = Len(d.basic_blocks)
    THEN Result("ok", d)
    ELSE IF ~permissive THEN Result("DrCovError", d)
    ELSE IF Len(Val(d.hit_counts)) > Len(d.basic_blocks)
         THEN Result("ok", [d EXCEPT !.hit_counts =
                     Some(SubSeq(Val(d.hit_counts),
                                 Len(Val(d.hit_counts)) - Len(d.basic_blocks) + 1,
                                 Len(Val(d.hit_counts))))])
    ELSE Result("ok", [d EXCEPT !.hit_counts =
                     Some(Val(d.hit_counts) \o
                          Ones(Len(d.basic_blocks) - Len(Val(d.hit_counts))))])

CheckHitCounts(d, permissive) ==
    IF d.hit_counts = None \/ Len(Val(d.hit_counts)) = Len(d.basic_blocks)
    THEN Result("ok", d)
    ELSE IF ~permissive THEN Result("DrCovError", d)
    ELSE IF Len(Val(d.hit_counts)) > Len(d.basic_blocks)
         THEN Result("ok", [d EXCEPT !.hit_counts =
                     Some(SubSeq(Val(d.hit_counts), 1, Len(d.basic_blocks)))])
    ELSE Result("ok", [d EXCEPT !.hit_counts =
                     Some(Val(d.hit_counts) \o
                          Ones(Len(d.basic_blocks) - Len(Val(d.hit_counts))))])

(* The hit-count check follows the filter unless the filter raised.        *)
AfterFilter(f) == IF f.status # "ok" THEN f ELSE CheckHitCounts(f.doc, TRUE)

validateNoHitCheck(d, permissive) ==
    IF ~permissive /\ HasDuplicateIds(d) THEN Result("DrCovError", d)
    ELSE IF ~permissive /\ InvalidBlocks(d) # {} THEN Result("DrCovError", d)
    ELSE IF ~permissive THEN Result("ok", d)
    ELSE FilterInvalidBlocks(d)

validate(d, permissive) ==
    IF ~permissive /\ HasDuplicateIds(d) THEN Result("DrCovError", d)
    ELSE IF ~permissive /\ InvalidBlocks(d) # {} THEN Result("DrCovError", d)
    ELSE IF ~permissive THEN CheckHitCounts(d, FALSE)
    ELSE AfterFilter(FilterInvalidBlocks(d))

StrictlyValid(d) == validate(d, FALSE).status = "ok"

----------------------------------------------------------------------------
(* Documents the validation is exercised on: any module-id list (with      *)
(* duplicates and gaps), blocks referring to any id, and a hit-count array *)
(* that is absent, aligned, shorter or longer than the block list.  The    *)
(* i-th hit count is 10 + i, so a count identifies the block it was paired *)
(* with.                                                                   *)

SeqsUpTo(S, n) == UNION {[1..k -> S] : k \in 0..n}

Image(i, id) ==
    ModuleEntry(id, 4096 * i, 4096 * i + 256, <<"/bin/a">>, 0, None, None, None, None)

ModulesWithIds(ids) == [i \in DOMAIN ids |-> Image(i, ids[i])]

BlocksInModules(mids) == [i \in DOMAIN mids |-> BasicBlock(16 * i, 4, mids[i])]

HitCountChoices(n) == {None} \cup {Some([k \in 1..m |-> 10 + k]) : m \in 0..n}

InitValidate ==
    /\ \E ids \in SeqsUpTo(0..MaxId, MaxMods), mids \in SeqsUpTo(0..MaxId, MaxBlocks),
          hc \in HitCountChoices(MaxBlocks + 1) :
           doc = CoverageData(_FLAVOR_STANDARD, ModulesWithIds(ids), BlocksInModules(mids),
                              V2, hc)
    /\ pre = doc
    /\ file = NoFile
    /\ rdoc = NoDoc
    /\ out = NoOp

Validate(permissive) ==
    LET r == validate(doc, permissive)
    IN  /\ doc' = r.doc
        /\ pre' = doc
        /\ out' = [op |-> "validate", status |-> r.status, permissive |-> permissive]
        /\ UNCHANGED <<file, rdoc>>

ValidateStrict == Validate(FALSE)
ValidatePermissive == Validate(TRUE)

NextValidate == ValidateStrict \/ ValidatePermissive

SpecValidate == InitValidate /\ [][NextValidate]_vars

----------------------------------------------------------------------------
(* Claims about validate                                                   *)

StrictCall == out.op = "validate" /\ ~out.permissive
PermissiveCall == out.op = "validate" /\ out.permissive

DuplicateIdsIn(d) ==
    \E i, j \in DOMAIN d.modules : i # j /\ d.modules[i].id = d.modules[j].id
DanglingBlockIn(d) ==
    \E i \in DOMAIN d.basic_blocks :
        \A j \in DOMAIN d.modules : d.modules[j].id # d.basic_blocks[i].module_id
HitMismatchIn(d) ==
    d.hit_counts # None /\ Len(Val(d.hit_counts)) # Len(d.basic_blocks)
NonSequentialIn(d) == \E i \in DOMAIN d.modules : d.modules[i].id # i - 1

C8_PermissiveRepair ==
    (PermissiveCall /\ ~DanglingBlockIn(pre) /\ HitMismatchIn(pre)) =>
        LET n == Len(pre.basic_blocks)
            old == Val(pre.hit_counts)
        IN  /\ out.status = "ok"
            /\ doc.basic_blocks = pre.basic_blocks
            /\ doc.hit_counts # None
            /\ Len(Val(doc.hit_counts)) = n
            /\ \A k \in 1..n :
                   Val(doc.hit_counts)[k] = IF k <= Len(old) THEN old[k] ELSE 1

C8_Witness ==
    /\ PermissiveCall /\ ~DanglingBlockIn(pre)
    /\ pre.hit_counts # None
    /\ Len(pre.basic_blocks) >= 1
    /\ Len(Val(pre.hit_counts)) > Len(pre.basic_blocks)
    /\ doc.hit_counts = Some(SubSeq(Val(pre.hit_counts), 1, Len(pre.basic_blocks)))

(* C9: validate(permissive=True) never raises, for any document: it        *)
(* removes exactly the blocks whose module_id matches no module, keeps the *)
(* others in order, removes the hit count at each removed block's index so *)
(* that every surviving block keeps its own count, and ends with           *)
(* hit_counts None or of length len(basic_blocks).                         *)
C9_PermissiveNeverRaises ==
    PermissiveCall =>
        LET keep == {i \in DOMAIN pre.basic_blocks :
                        \E j \in DOMAIN pre.modules :
                            pre.modules[j].id = pre.basic_blocks[i].module_id}
            pos(i) == Cardinality({j \in keep : j <= i})
        IN  /\ out.status = "ok"
            /\ Len(doc.basic_blocks) = Cardinality(keep)
            /\ \A i \in keep : doc.basic_blocks[pos(i)] = pre.basic_blocks[i]
            /\ (pre.hit_counts = None) <=> (doc.hit_counts = None)
            /\ doc.hit_counts # None =>
                   /\ Len(Val(doc.hit_counts)) = Len(doc.basic_blocks)
                   /\ \A i \in keep :
                          i <= Len(Val(pre.hit_counts)) =>
                              Val(doc.hit_counts)[pos(i)] = Val(pre.hit_counts)[i]

----------------------------------------------------------------------------
(* CoverageBuilder: doc is the builder's _data                             *)

NewBuilderData == CoverageData(_FLAVOR_STANDARD, <<>>, <<>>, V2, None)

set_flavor(d, flavor) == [d EXCEPT !.flavor = flavor]

set_module_version(d, version) == [d EXCEPT !.module_version = version]

add_module_one_based(d, path, base, end, entry) ==
    [d EXCEPT !.modules = Append(@,
        ModuleEntry(Len(d.modules) + 1, base, end, path, entry, None, None, None, None))]

add_module(d, path, base, end, entry) ==
    [d EXCEPT !.modules = Append(@,
        ModuleEntry(Len(d.modules), base, end, path, entry, None, None, None, None))]

add_coverage(d, module_id, offset, size, hit_count) ==
    LET blocks == Append(d.basic_blocks, BasicBlock(offset, size, module_id))
        hc == IF d.hit_counts = None /\ hit_count # 1
              THEN Some(Ones(Len(blocks) - 1))
              ELSE d.hit_counts
    IN  [d EXCEPT !.basic_blocks = blocks,
                  !.hit_counts = IF hc # None THEN Some(Append(Val(hc), hit_count))
                                 ELSE None]

add_basic_blocks(d, blocks) == [d EXCEPT !.basic_blocks = @ \o blocks]

clear_coverage(d) == [d EXCEPT !.basic_blocks = <<>>, !.hit_counts = None]

set_hit_counts_unchecked(d, hit_counts) ==
    Result("ok", [d EXCEPT !.hit_counts = Some(hit_counts),
                           !.flavor = _FLAVOR_WITH_HITS])

set_hit_counts(d, hit_counts) ==
    IF Len(hit_counts) # Len(d.basic_blocks) THEN Result("ValueError", d)
    ELSE Result("ok", [d EXCEPT !.hit_counts = Some(hit_counts),
                                !.flavor = _FLAVOR_WITH_HITS])

enable_hit_counts(d) ==
    IF d.hit_counts = None
    THEN [d EXCEPT !.hit_counts = Some(Ones(Len(d.basic_blocks))),
                   !.flavor = _FLAVOR_WITH_HITS]
    ELSE d

build(d) == validate(d, FALSE)

(* Arguments the builder is driven with                                    *)
Flavors == {_FLAVOR_STANDARD, _FLAVOR_WITH_HITS}
BuilderPaths == {<<"/bin/a">>}
BlockArgs == {BasicBlock(16, 4, m) : m \in 0..MaxId}
HitArgs == {1, 5}

InitBuilder ==
    /\ doc = NewBuilderData
    /\ pre = doc
    /\ file = NoFile
    /\ rdoc = NoDoc
    /\ out = NoOp

(* A call on the builder: out keeps the method, how it ended and the      *)
(* hit-count argument of the call (<<>> for a method that takes none)      *)
CalledWith(op, status, arg) ==
    /\ pre' = doc
    /\ out' = [op |-> op, status |-> status, permissive |-> FALSE, arg |-> arg]
    /\ UNCHANGED <<file, rdoc>>

Called(op, status) == CalledWith(op, status, <<>>)

SetFlavor ==
    \E f \in Flavors : doc' = set_flavor(doc, f) /\ Called("set_flavor", "ok")

SetModuleVersion ==
    \E v \in ModuleTableVersion :
        doc' = set_module_version(doc, v) /\ Called("set_module_version", "ok")

AddModule ==
    /\ Len(doc.modules) < MaxMods
    /\ \E p \in BuilderPaths :
           /\ doc' = add_module(doc, p, 4096, 8192, 0)
           /\ Called("add_module", "ok")

AddCoverage ==
    /\ Len(doc.basic_blocks) < MaxBlocks
    /\ \E b \in BlockArgs, h \in HitArgs :
           /\ doc' = add_coverage(doc, b.module_id, b.start, b.size, h)
           /\ CalledWith("add_coverage", "ok", <<h>>)

AddBasicBlocks ==
    /\ Len(doc.basic_blocks) < MaxBlocks
    /\ \E b \in BlockArgs :
           /\ doc' = add_basic_blocks(doc, <<b>>)
           /\ Called("add_basic_blocks", "ok")

ClearCoverage == doc' = clear_coverage(doc) /\ Called("clear_coverage", "ok")

SetHitCounts ==
    \E hc \in SeqsUpTo({5}, MaxBlocks) :
        LET r == set_hit_counts(doc, hc)
        IN  doc' = r.doc /\ CalledWith("set_hit_counts", r.status, hc)

EnableHitCounts == doc' = enable_hit_counts(doc) /\ Called("enable_hit_counts", "ok")

(* build() returns self._data itself: rdoc is that reference once a build  *)
(* has returned, and the returned document is whatever _data then holds    *)
DataRef == [ref |-> "_data"]

Deref(r) == doc

Built(r) ==
    /\ doc' = r.doc
    /\ pre' = doc
    /\ out' = [op |-> "build", status |-> r.status, permissive |-> FALSE, arg |-> <<>>]
    /\ rdoc' = IF r.status = "ok" THEN DataRef ELSE rdoc
    /\ file' = file

Build == Built(build(doc))

NextBuilder ==
    \/ SetFlavor
    \/ SetModuleVersion
    \/ AddModule
    \/ AddCoverage
    \/ AddBasicBlocks
    \/ ClearCoverage
    \/ SetHitCounts
    \/ EnableHitCounts
    \/ Build

SpecBuilder == InitBuilder /\ [][NextBuilder]_vars

(* C10: add_module gives each new module the id equal to the number of     *)
(* modules already added, so in every builder state the module ids are     *)
(* 0..n-1 in list order; build() returns the document only if it passes    *)
(* strict validation, and raises DrCovError when any added block's         *)
(* module_id is not one of the ids 0..n-1.                                 *)
C10_BuilderIds ==
    /\ \A i \in DOMAIN doc.modules : doc.modules[i].id = i - 1
    /\ out.op = "add_module" =>
           /\ Len(doc.modules) = Len(pre.modules) + 1
           /\ doc.modules[Len(doc.modules)].id = Len(pre.modules)
    /\ out.op = "build" =>
           /\ out.status \in {"ok", "DrCovError"}
           /\ out.status = "ok" =>
                  ~(DuplicateIdsIn(doc) \/ DanglingBlockIn(doc) \/ HitMismatchIn(doc))
           /\ (\E i \in DOMAIN pre.basic_blocks :
                   pre.basic_blocks[i].module_id \notin 0..(Len(pre.modules) - 1))
                  => out.status = "DrCovError"

C10_Witness ==
    /\ out.op = "build"
    /\ out.status = "DrCovError"
    /\ Len(doc.modules) = 2
    /\ \E i \in DOMAIN doc.basic_blocks : doc.basic_blocks[i].module_id = 2

(* C11: in the builder hit_counts stays None while every add_coverage call *)
(* uses hit count 1; the first add_coverage with another hit count creates *)
(* the array holding 1 for every block added before it followed by the     *)
(* supplied count, every later add_coverage appends its count, and from    *)
(* the creation of the array the flavor is 'drcov-hits'.                   *)
C11_AddCoverageHitCounts ==
    out.op = "add_coverage" =>
        LET h == out.arg[1]
        IN  /\ doc.basic_blocks =
                   Append(pre.basic_blocks, doc.basic_blocks[Len(doc.basic_blocks)])
            /\ (pre.hit_counts = None /\ h = 1) => doc.hit_counts = None
            /\ (pre.hit_counts = None /\ h # 1) =>
                   /\ doc.hit_counts =
                          Some(Append([i \in 1..Len(pre.basic_blocks) |-> 1], h))
                   /\ doc.flavor = _FLAVOR_WITH_HITS
            /\ pre.hit_counts # None =>
                   doc.hit_counts = Some(Append(Val(pre.hit_counts), h))

(* C12: set_hit_counts with a list whose length differs from the builder's *)
(* block count raises ValueError and leaves blocks, hit_counts and flavor  *)
(* as they were; with equal length the list becomes hit_counts and the     *)
(* flavor becomes 'drcov-hits'.                                            *)
C12_SetHitCounts ==
    out.op = "set_hit_counts" =>
        IF Len(out.arg) # Len(pre.basic_blocks)
        THEN /\ out.status = "ValueError"
             /\ doc.basic_blocks = pre.basic_blocks
             /\ doc.hit_counts = pre.hit_counts
             /\ doc.flavor = pre.flavor
        ELSE /\ out.status = "ok"
             /\ doc.basic_blocks = pre.basic_blocks
             /\ doc.hit_counts = Some(out.arg)
             /\ doc.flavor = _FLAVOR_WITH_HITS

C12_Witness ==
    /\ out.op = "set_hit_counts"
    /\ out.status = "ValueError"
    /\ Len(out.arg) = 1
    /\ Len(doc.basic_blocks) = 2
    /\ doc.hit_counts # None
    /\ doc.flavor = _FLAVOR_STANDARD
    /\ ~HitMismatchIn(doc)

(* C28: in every builder state reachable by add_module, add_coverage,      *)
(* add_basic_blocks, set_hit_counts, enable_hit_counts and clear_coverage  *)
(* calls, hit_counts is None or has as many entries as basic_blocks.       *)
C28_BuilderHitCountsAligned ==
    doc.hit_counts = None \/ Len(Val(doc.hit_counts)) = Len(doc.basic_blocks)

(* C29: a document returned by build() is not changed by later calls on    *)
(* the same builder: each such call leaves its modules, blocks, hit counts *)
(* and flavor as they were, and it still passes strict validation.         *)
C29_BuiltDocumentStable ==
    (rdoc = DataRef /\ out.op # "build") =>
        /\ Deref(rdoc).modules = pre.modules
        /\ Deref(rdoc).basic_blocks = pre.basic_blocks
        /\ Deref(rdoc).hit_counts = pre.hit_counts
        /\ Deref(rdoc).flavor = pre.flavor
        /\ StrictlyValid(Deref(rdoc))

----------------------------------------------------------------------------
(* The file: text lines, then the binary tables                            *)
(*                                                                         *)
(* A file is the sequence of its text lines up to the first "BB Table:"    *)
(* (text), and from there on (bin, None when the file holds no             *)
(* "BB Table:"): the count declared on the BB-table line, the bytes that   *)
(* follow it up to the hit-count declaration line or the end of the file   *)
(* (data), and the hit-count table (hit, None when the file has no         *)
(* "Hit Count Table: " line) with its declared count and the bytes after   *)
(* its line.                                                               *)
(*                                                                         *)
(* A comma-separated value of a module row is a token: a decimal numeral   *)
(* (str(n)), a hexadecimal numeral with 0x prefix (f"0x{n:x}"), or text.   *)

Tok(t, n, s) == [t |-> t, n |-> n, s |-> s]
Dec(n) == Tok("dec", n, <<>>)
Hex(n) == Tok("hex", n, <<>>)
Str(segs) == Tok("str", 0, segs)

Line(k, n, m, s, toks) == [k |-> k, n |-> n, m |-> m, s |-> s, toks |-> toks]
VersionLine(v) == Line("version", v, 0, "", <<>>)
FlavorLine(f) == Line("flavor", 0, 0, f, <<>>)
BlankLine == Line("blank", 0, 0, "", <<>>)
ModuleTableLine(ver, count) == Line("modtable", ver, count, "", <<>>)
LegacyModuleTableLine(count) == Line("modtable_legacy", 0, count, "", <<>>)
ColumnsLine(cols) == Line("columns", 0, 0, "", [i \in DOMAIN cols |-> Str(<<cols[i]>>)])
RowLine(fields) == Line("row", 0, 0, "", fields)
EofLine == Line("eof", 0, 0, "", <<>>)

HitTable(version, count, data) == [version |-> version, count |-> count, data |-> data]
BinPart(bbcount, data, hit) == [bbcount |-> bbcount, data |-> data, hit |-> hit]
File(text, bin) == [exists |-> TRUE, text |-> text, bin |-> bin]
EmptyFile == File(<<>>, None)

----------------------------------------------------------------------------
(* struct.pack / struct.unpack, little-endian unsigned                     *)

RECURSIVE Pow256(_)
Pow256(k) == IF k = 0 THEN 1 ELSE 256 * Pow256(k - 1)

(* n fits nbytes bytes: 0 <= n < 256^nbytes                               *)
PackableU(n, nbytes) == n >= 0 /\ n \div Pow256(nbytes - 1) < 256

PackBE(n, nbytes) == [i \in 1..nbytes |-> (n \div Pow256(nbytes - i)) % 256]

PackLE(n, nbytes) == [i \in 1..nbytes |-> (n \div Pow256(i - 1)) % 256]

RECURSIVE UnpackLE(_)
UnpackLE(bytes) ==
    IF bytes = <<>> THEN 0 ELSE bytes[1] + 256 * UnpackLE(Tail(bytes))

RECURSIVE Flatten(_)
Flatten(ss) == IF ss = <<>> THEN <<>> ELSE ss[1] \o Flatten(Tail(ss))

(* struct.pack("<IHH", bb.start, bb.size, bb.module_id)                    *)
PackBlock(bb) == PackLE(bb.start, 4) \o PackLE(bb.size, 2) \o PackLE(bb.module_id, 2)
BlockPackable(bb) ==
    PackableU(bb.start, 4) /\ PackableU(bb.size, 2) /\ PackableU(bb.module_id, 2)

(* struct.unpack("<IHH", entry_data)                                       *)
UnpackBlock(bytes) ==
    BasicBlock(UnpackLE(SubSeq(bytes, 1, 4)), UnpackLE(SubSeq(bytes, 5, 6)),
               UnpackLE(SubSeq(bytes, 7, 8)))

----------------------------------------------------------------------------
(* _Writer                                                                 *)

HasWindowsFields(d) ==
    \E i \in DOMAIN d.modules :
        d.modules[i].checksum # None \/ d.modules[i].timestamp # None

_get_columns_string(d) ==
    LET w == HasWindowsFields(d)
    IN  IF d.module_version = V2
        THEN IF w THEN <<"id", "base", "end", "entry", "checksum", "timestamp", "path">>
                  ELSE <<"id", "base", "end", "entry", "path">>
        ELSE IF d.module_version = V3
        THEN IF w THEN <<"id", "containing_id", "start", "end", "entry",
                         "checksum", "timestamp", "path">>
                  ELSE <<"id", "containing_id", "start", "end", "entry", "path">>
        ELSE IF d.module_version = V4
        THEN IF w THEN <<"id", "containing_id", "start", "end", "entry", "offset",
                         "checksum", "timestamp", "path">>
                  ELSE <<"id", "containing_id", "start", "end", "entry", "offset", "path">>
        ELSE <<"id", "base", "end", "entry", "path">>

WriterColumns(d) ==
    IF d.module_version = LEGACY THEN <<"id", "base", "end", "entry", "path">>
    ELSE _get_columns_string(d)

RowPartOwnFields(mod, col) ==
    IF col = "id" THEN <<Dec(mod.id)>>
    ELSE IF col \in {"base", "start"} THEN <<Hex(mod.base)>>
    ELSE IF col = "end" THEN <<Hex(mod.end)>>
    ELSE IF col = "entry" THEN <<Hex(mod.entry)>>
    ELSE IF col = "path" THEN [i \in DOMAIN mod.path |-> Str(<<mod.path[i]>>)]
    ELSE IF col = "containing_id"
         THEN <<Dec(IF TruthyInt(mod.containing_id) THEN Val(mod.containing_id) ELSE -1)>>
    ELSE IF col = "offset"
         THEN <<Hex(IF TruthyInt(mod.offset) THEN Val(mod.offset) ELSE 0)>>
    ELSE IF col = "checksum"
         THEN IF mod.checksum = None THEN <<>> ELSE <<Hex(Val(mod.checksum))>>
    ELSE IF col = "timestamp"
         THEN IF mod.timestamp = None THEN <<>> ELSE <<Hex(Val(mod.timestamp))>>
    ELSE <<>>

(* The comma-separated fields one column contributes to a module's row;    *)
(* a path holding commas spreads over several fields.                      *)
RowPart(mod, col) ==
    IF col = "id" THEN <<Dec(mod.id)>>
    ELSE IF col \in {"base", "start"} THEN <<Hex(mod.base)>>
    ELSE IF col = "end" THEN <<Hex(mod.end)>>
    ELSE IF col = "entry" THEN <<Hex(mod.entry)>>
    ELSE IF col = "path" THEN [i \in DOMAIN mod.path |-> Str(<<mod.path[i]>>)]
    ELSE IF col = "containing_id"
         THEN <<Dec(IF TruthyInt(mod.containing_id) THEN Val(mod.containing_id) ELSE -1)>>
    ELSE IF col = "offset"
         THEN <<Hex(IF TruthyInt(mod.offset) THEN Val(mod.offset) ELSE 0)>>
    ELSE IF col = "checksum"
         THEN <<Hex(IF TruthyInt(mod.checksum) THEN Val(mod.checksum) ELSE 0)>>
    ELSE IF col = "timestamp"
         THEN <<Hex(IF TruthyInt(mod.timestamp) THEN Val(mod.timestamp) ELSE 0)>>
    ELSE <<>>

_write_module_table(d) ==
    LET columns == WriterColumns(d)
        rows == [i \in DOMAIN d.modules |->
                    RowLine(Flatten([c \in DOMAIN columns |->
                                        RowPart(d.modules[i], columns[c])]))]
    IN  IF d.module_version = LEGACY
        THEN <<LegacyModuleTableLine(Len(d.modules))>> \o rows
        ELSE <<ModuleTableLine(d.module_version, Len(d.modules)), ColumnsLine(columns)>>
             \o rows

(* FileHeader.to_string() followed by the blank line of write_stream       *)
HeaderLines(d) == <<VersionLine(d.version), FlavorLine(d.flavor), BlankLine>>

TextLines(d) == HeaderLines(d) \o _write_module_table(d) \o <<BlankLine>>

_write_bb_table(blocks) ==
    Flatten([i \in DOMAIN blocks |-> PackBlock(blocks[i])])

_write_hit_count_table_big_endian(hit_counts) ==
    HitTable(1, Len(hit_counts),
             Flatten([i \in DOMAIN hit_counts |-> PackBE(hit_counts[i], 4)]))

_write_hit_count_table(hit_counts) ==
    HitTable(1, Len(hit_counts),
             Flatten([i \in DOMAIN hit_counts |-> PackLE(hit_counts[i], 4)]))

HitSection(d) ==
    IF d.hit_counts # None THEN Some(_write_hit_count_table(Val(d.hit_counts)))
    ELSE None

(* write(data, path): open(path, "wb") truncates the file, then            *)
(* write_stream validates and emits the text, the BB table and the hit     *)
(* count table; struct.error ends the output after the table's header line *)
(* (the packed records are joined before they are written).                *)
write(d) ==
    IF validate(d, FALSE).status # "ok"
    THEN [status |-> "DrCovError", file |-> EmptyFile]
    ELSE IF \E i \in DOMAIN d.basic_blocks : ~BlockPackable(d.basic_blocks[i])
    THEN [status |-> "struct.error",
          file |-> File(TextLines(d), Some(BinPart(Len(d.basic_blocks), <<>>, None)))]
    ELSE IF d.hit_counts # None
            /\ \E i \in DOMAIN Val(d.hit_counts) : ~PackableU(Val(d.hit_counts)[i], 4)
    THEN [status |-> "struct.error",
          file |-> File(TextLines(d),
                        Some(BinPart(Len(d.basic_blocks), _write_bb_table(d.basic_blocks),
                                     Some(HitTable(1, Len(Val(d.hit_counts)), <<>>)))))]
    ELSE [status |-> "ok",
          file |-> File(TextLines(d),
                        Some(BinPart(Len(d.basic_blocks), _write_bb_table(d.basic_blocks),
                                     HitSection(d))))]

----------------------------------------------------------------------------
(* _Parser                                                                 *)

(* stream.readline(): the line at the cursor, "" at the end of the text    *)
LineAt(text, pos) == IF pos <= Len(text) THEN text[pos] ELSE EofLine

(* line.strip() is empty                                                   *)
IsBlank(line) == line.k \in {"blank", "eof"}

(* int(s) and int(s, 16) on a token: None stands for ValueError.  A        *)
(* decimal numeral read in base 16 has its digits taken as hex digits.     *)
RECURSIVE DigitsAsHex(_)
DigitsAsHex(n) ==
    IF n < 0 THEN 0 - DigitsAsHex(0 - n)
    ELSE IF n < 10 THEN n
    ELSE 16 * DigitsAsHex(n \div 10) + (n % 10)

ParseInt10(tok) == IF tok.t = "dec" THEN Some(tok.n) ELSE None

ParseInt16(tok) ==
    IF tok.t = "hex" THEN Some(tok.n)
    ELSE IF tok.t = "dec" THEN Some(DigitsAsHex(tok.n))
    ELSE None

(* The text of a token; a numeral's text is kept abstract.                 *)
TokText(tok) == IF tok.t = "str" THEN tok.s ELSE <<"<numeral>">>

(* entry_line.split(",", maxsplit=len(columns) - 1): at most ncols values, *)
(* the last one holding the rest of the line, commas included.             *)
SplitRow(fields, ncols) ==
    IF Len(fields) <= ncols THEN fields
    ELSE SubSeq(fields, 1, ncols - 1)
         \o <<Str(Flatten([i \in 1..(Len(fields) - ncols + 1) |->
                              TokText(fields[ncols - 1 + i])]))>>

(* col_map = dict(zip(columns, values)): a repeated column keeps its last  *)
(* value.                                                                  *)
HasCol(columns, c) == \E i \in DOMAIN columns : columns[i] = c
ColValue(columns, values, c) ==
    values[CHOOSE i \in DOMAIN columns :
               columns[i] = c /\ \A j \in DOMAIN columns : columns[j] = c => j <= i]

OptField16(columns, values, c) ==
    IF HasCol(columns, c) THEN ParseInt16(ColValue(columns, values, c)) ELSE Some(0)

(* Lines 449-474: one module row to a ModuleEntry; KeyError and ValueError *)
(* become DrCovError.                                                      *)
ParseModuleEntry(columns, values) ==
    LET has(c) == HasCol(columns, c)
        v(c) == ColValue(columns, values, c)
        id == IF has("id") THEN ParseInt10(v("id")) ELSE None
        base == IF has("base") THEN ParseInt16(v("base"))
                ELSE IF has("start") THEN ParseInt16(v("start"))
                ELSE Some(0)
        end == IF has("end") THEN ParseInt16(v("end")) ELSE None
        entry == OptField16(columns, values, "entry")
        cid == IF has("containing_id") THEN ParseInt10(v("containing_id")) ELSE Some(0)
        off == OptField16(columns, values, "offset")
        chk == OptField16(columns, values, "checksum")
        ts == OptField16(columns, values, "timestamp")
    IN  IF \/ id = None \/ base = None \/ end = None \/ ~has("path") \/ entry = None
           \/ cid = None \/ off = None \/ chk = None \/ ts = None
        THEN [status |-> "DrCovError", module |-> <<>>]
        ELSE [status |-> "ok",
              module |-> ModuleEntry(
                  Val(id), Val(base), Val(end), TokText(v("path")), Val(entry),
                  IF has("containing_id") THEN cid ELSE None,
                  IF has("offset") THEN off ELSE None,
                  IF has("checksum") THEN chk ELSE None,
                  IF has("timestamp") THEN ts ELSE None)]

(* _parse_header: the version line, the flavor line, an optional blank     *)
(* line; pos is the cursor after it.                                       *)
_parse_header_lenient(text) ==
    IF LineAt(text, 1).k # "version"
    THEN [status |-> "DrCovError", version |-> 0, flavor |-> "", pos |-> 1]
    ELSE IF LineAt(text, 2).k # "flavor"
    THEN [status |-> "ok", version |-> LineAt(text, 1).n, flavor |-> _FLAVOR_STANDARD,
          pos |-> IF IsBlank(LineAt(text, 2)) THEN 3 ELSE 2]
    ELSE [status |-> "ok", version |-> LineAt(text, 1).n, flavor |-> LineAt(text, 2).s,
          pos |-> IF IsBlank(LineAt(text, 3)) THEN 4 ELSE 3]

_parse_header(text) ==
    IF LineAt(text, 1).k # "version"
    THEN [status |-> "DrCovError", version |-> 0, flavor |-> "", pos |-> 1]
    ELSE IF LineAt(text, 2).k # "flavor"
    THEN [status |-> "DrCovError", version |-> 0, flavor |-> "", pos |-> 2]
    ELSE [status |-> "ok", version |-> LineAt(text, 1).n, flavor |-> LineAt(text, 2).s,
          pos |-> IF IsBlank(LineAt(text, 3)) THEN 4 ELSE 3]

(* One row: the arity check, then the ModuleEntry                          *)
ParseRow(columns, values) ==
    IF Len(values) # Len(columns) THEN [status |-> "DrCovError", module |-> <<>>]
    ELSE ParseModuleEntry(columns, values)

RowsResult(m, rest) ==
    IF m.status # "ok" THEN [status |-> "DrCovError", modules |-> <<>>]
    ELSE IF rest.status # "ok" THEN rest
    ELSE [status |-> "ok", modules |-> <<m.module>> \o rest.modules]

RECURSIVE ParseRows(_, _, _, _)
(* Lines 433-474: count rows from the cursor on                            *)
ParseRows(text, pos, count, columns) ==
    IF count = 0 THEN [status |-> "ok", modules |-> <<>>]
    ELSE IF IsBlank(LineAt(text, pos)) THEN [status |-> "DrCovError", modules |-> <<>>]
    ELSE RowsResult(ParseRow(columns, SplitRow(LineAt(text, pos).toks, Len(columns))),
                    ParseRows(text, pos + 1, count - 1, columns))

(* _parse_module_table: ModuleTableVersion(int(version_str)) raises        *)
(* ValueError, which is not caught, for a table version outside 1..4.      *)
TableFail(status) == [status |-> status, modules |-> <<>>, version |-> V2]
TableResult(r, version) ==
    [status |-> r.status, modules |-> r.modules, version |-> version]
ColumnNames(toks) == [i \in DOMAIN toks |-> toks[i].s[1]]

_parse_module_table(text, pos) ==
    IF LineAt(text, pos).k = "modtable"
    THEN IF LineAt(text, pos).n \notin ModuleTableVersion THEN TableFail("ValueError")
         ELSE IF LineAt(text, pos + 1).k # "columns" THEN TableFail("DrCovError")
         ELSE TableResult(ParseRows(text, pos + 2, LineAt(text, pos).m,
                                    ColumnNames(LineAt(text, pos + 1).toks)),
                          LineAt(text, pos).n)
    ELSE IF LineAt(text, pos).k = "modtable_legacy"
    THEN TableResult(ParseRows(text, pos + 1, LineAt(text, pos).m,
                               <<"id", "base", "end", "entry", "path">>),
                     LEGACY)
    ELSE TableFail("DrCovError")

(* Header, version check and module table, shared by parse_text_only and   *)
(* parse_with_binary.                                                      *)
TextFail(status) == [status |-> status, flavor |-> "", modules |-> <<>>, version |-> V2]

TextResult(h, t) ==
    IF t.status # "ok" THEN TextFail(t.status)
    ELSE [status |-> "ok", flavor |-> h.flavor, modules |-> t.modules, version |-> t.version]

AfterHeader(text, h) ==
    IF h.status # "ok" THEN TextFail(h.status)
    ELSE IF h.version # _SUPPORTED_FILE_VERSION THEN TextFail("DrCovError")
    ELSE TextResult(h, _parse_module_table(text, h.pos))

ParseTextPart(text) == AfterHeader(text, _parse_header(text))

ReadResult(status, d) == [status |-> status, doc |-> d]

(* The parsed document goes through validate(permissive) before it is      *)
(* returned.                                                               *)
FinishNoValidate(flavor, modules, blocks, version, hit_counts, permissive) ==
    ReadResult("ok", CoverageData(flavor, modules, blocks, version, hit_counts))

Validated(r) ==
    IF r.status = "ok" THEN ReadResult("ok", r.doc) ELSE ReadResult(r.status, NoDoc)

Finish(flavor, modules, blocks, version, hit_counts, permissive) ==
    Validated(validate(CoverageData(flavor, modules, blocks, version, hit_counts),
                       permissive))

TextOnlyResult(t, permissive) ==
    IF t.status # "ok" THEN ReadResult(t.status, NoDoc)
    ELSE Finish(t.flavor, t.modules, <<>>, t.version, None, permissive)

parse_text_only(text, permissive) == TextOnlyResult(ParseTextPart(text), permissive)

(* Lines 649-661: count 8-byte records after the BB-table line             *)
ParseBlocks(bin) ==
    IF bin.bbcount = 0 THEN [status |-> "ok", blocks |-> <<>>]
    ELSE IF Len(bin.data) < bin.bbcount * _BB_ENTRY_SIZE
    THEN [status |-> "DrCovError", blocks |-> <<>>]
    ELSE [status |-> "ok",
          blocks |-> [i \in 1..bin.bbcount |->
                         UnpackBlock(SubSeq(bin.data, (i - 1) * _BB_ENTRY_SIZE + 1,
                                            i * _BB_ENTRY_SIZE))]]

(* The bytes bb_stream.read() returns between the last record read and the *)
(* hit-count declaration line.                                             *)
BytesBeforeHitLine(bin) ==
    IF bin.bbcount = 0 THEN bin.data
    ELSE SubSeq(bin.data, bin.bbcount * _BB_ENTRY_SIZE + 1, Len(bin.data))

(* _parse_hit_count_table_from_binary: None stands for the DrCovError it   *)
(* raises.  The declaration line is recognised when a line of the decoded  *)
(* remainder starts with it, which bytes left over before it prevent.      *)
ParseHitTable(h, leftover, expected_count) ==
    IF leftover # <<>> THEN None
    ELSE IF h.count # expected_count THEN None
    ELSE IF h.count = 0 THEN Some(<<>>)
    ELSE IF Len(h.data) < h.count * _HIT_COUNT_ENTRY_SIZE THEN None
    ELSE Some([i \in 1..h.count |->
                  UnpackLE(SubSeq(h.data, (i - 1) * _HIT_COUNT_ENTRY_SIZE + 1,
                                  i * _HIT_COUNT_ENTRY_SIZE))])

_parse_hit_count_table_from_binary(bin, expected_count) ==
    ParseHitTable(Val(bin.hit), BytesBeforeHitLine(bin), expected_count)

(* Lines 663-681: the hit-count table is parsed when the remainder holds   *)
(* its prefix, and every error of the attempt is swallowed.                *)
ReadHitCounts(bin, nblocks) ==
    IF bin.hit = None THEN None
    ELSE _parse_hit_count_table_from_binary(bin, nblocks)

BinaryResult(t, b, bin, permissive) ==
    IF t.status # "ok" THEN ReadResult(t.status, NoDoc)
    ELSE IF b.status # "ok" THEN ReadResult(b.status, NoDoc)
    ELSE Finish(t.flavor, t.modules, b.blocks, t.version,
                ReadHitCounts(bin, Len(b.blocks)), permissive)

parse_with_binary(text, bin, permissive) ==
    BinaryResult(ParseTextPart(text), ParseBlocks(bin), bin, permissive)

(* read(filepath, permissive)                                              *)
read(f, permissive) ==
    IF ~f.exists THEN ReadResult("FileNotFoundError", NoDoc)
    ELSE IF f.bin = None THEN parse_text_only(f.text, permissive)
    ELSE parse_with_binary(f.text, Val(f.bin), permissive)

----------------------------------------------------------------------------
(* Writing a document and reading the file back                            *)
(*                                                                         *)
(* Documents: either flavor, any module-table version, modules with        *)
(* sequential ids or ids shifted by one, each with one of the optional     *)
(* field combinations below, every other module with a path that holds a   *)
(* comma, blocks referring to ids 0 and 1 whose fields need more than one  *)
(* byte, and hit counts absent or of any length up to MaxBlocks.  Field    *)
(* values stay within the widths the data model declares (uint32/uint16).  *)

OptionalFields ==
    { <<None, None, None, None>>,
      <<Some(1), Some(4), None, None>>,
      <<Some(0), None, None, None>>,
      <<None, None, Some(7), Some(9)>>,
      <<None, None, Some(7), None>> }

PathOf(i) == IF i % 2 = 0 THEN <<"/lib/b", "v2.so">> ELSE <<"/bin/a">>

CodecModule(i, id, opt) ==
    ModuleEntry(id, 4096 * i, 4096 * i + 256, PathOf(i), 4096 * i + 16,
                opt[1], opt[2], opt[3], opt[4])

CodecModules(n, shift, opts) == [i \in 1..n |-> CodecModule(i, i - 1 + shift, opts[i])]

CodecBlocks(mids) == [i \in DOMAIN mids |-> BasicBlock(70000 + i, 300 + i, mids[i])]

InitCodec ==
    /\ \E fl \in Flavors, ver \in ModuleTableVersion, n \in 0..MaxMods, shift \in {0, 1},
          mids \in SeqsUpTo({0, 1}, MaxBlocks), hc \in HitCountChoices(MaxBlocks) :
           \E opts \in [1..n -> OptionalFields] :
               doc = CoverageData(fl, CodecModules(n, shift, opts), CodecBlocks(mids), ver, hc)
    /\ pre = doc
    /\ file = NoFile
    /\ rdoc = NoDoc
    /\ out = NoOp

Written(w) ==
    /\ file' = w.file
    /\ out' = [op |-> "write", status |-> w.status, permissive |-> FALSE]
    /\ pre' = doc
    /\ UNCHANGED <<doc, rdoc>>

Write == Written(write(doc))

Returned(r, permissive) ==
    /\ rdoc' = r.doc
    /\ out' = [op |-> "read", status |-> r.status, permissive |-> permissive]
    /\ pre' = doc
    /\ UNCHANGED <<doc, file>>

Read(permissive) == Returned(read(file, permissive), permissive)

ReadStrict == Read(FALSE)
ReadPermissive == Read(TRUE)

NextCodec == Write \/ ReadStrict \/ ReadPermissive

SpecCodec == InitCodec /\ [][NextCodec]_vars

PassesStrict(d) == ~(DuplicateIdsIn(d) \/ DanglingBlockIn(d) \/ HitMismatchIn(d))

(* The file at the path was produced by write() from the valid document    *)
(* doc and has just been read back.                                        *)
ReadBack == out.op = "read" /\ file.exists /\ PassesStrict(doc)

(* C1: for every CoverageData that passes strict validation, write(doc,    *)
(* path) followed by read(path) returns a document equal to doc: same      *)
(* flavor, module_version, modules field for field, blocks and hit counts. *)
C1_RoundTrip ==
    ReadBack =>
        /\ out.status = "ok"
        /\ rdoc.flavor = doc.flavor
        /\ rdoc.module_version = doc.module_version
        /\ rdoc.modules = doc.modules
        /\ rdoc.basic_blocks = doc.basic_blocks
        /\ rdoc.hit_counts = doc.hit_counts

(* C3: in every file produced by write() for a document that passes strict *)
(* validation, the hit-count section is present iff the header flavor is   *)
(* exactly "drcov-hits", and when present its declared count equals the    *)
(* number of basic blocks in the BB table.                                 *)
C3_HitSectionIffFlavor ==
    (out.op = "write" /\ PassesStrict(doc)) =>
        /\ out.status = "ok"
        /\ file.bin # None
        /\ (Val(file.bin).hit # None) <=> (doc.flavor = "drcov-hits")
        /\ Val(file.bin).hit # None =>
               Val(Val(file.bin).hit).count = Val(file.bin).bbcount

(* C4: for every strictly valid document, read(write(doc)).hit_counts      *)
(* equals doc.hit_counts: without hit counts it reads back None and no     *)
(* error, with hit counts it reads back the same counts in the same order, *)
(* index-aligned with the same blocks.                                     *)
C4_HitCountsRoundTrip ==
    ReadBack =>
        /\ out.status = "ok"
        /\ rdoc.hit_counts = doc.hit_counts
        /\ rdoc.basic_blocks = doc.basic_blocks

C4_Witness ==
    /\ ReadBack
    /\ doc.hit_counts # None
    /\ Len(Val(doc.hit_counts)) = 2
    /\ rdoc.hit_counts = doc.hit_counts
    /\ doc.flavor = _FLAVOR_STANDARD

----------------------------------------------------------------------------
(* Reading files that no validated write produced                          *)
(*                                                                         *)
(* The files are what the writer's layout gives for any document, valid or *)
(* not (duplicate ids, blocks of unknown modules, a hit-count table whose  *)
(* count differs from the BB table's), each with at most one defect.       *)

RawFile(d) ==
    File(TextLines(d),
         Some(BinPart(Len(d.basic_blocks), _write_bb_table(d.basic_blocks), HitSection(d))))

ReadDoc(fl, ids, mids, ver, hc) ==
    CoverageData(fl, ModulesWithIds(ids), CodecBlocks(mids), ver, hc)

Defects ==
    {"none", "no_version", "version_3", "no_flavor", "no_blank", "no_module_table",
     "table_version_5", "no_columns", "short_row", "long_row", "missing_row",
     "no_bb_table", "short_bb_data", "short_hit_data"}

RemoveAt(s, i) == SubSeq(s, 1, i - 1) \o SubSeq(s, i + 1, Len(s))
ButLast(s) == SubSeq(s, 1, Len(s) - 1)

FirstOfKind(text, k) ==
    IF \E i \in DOMAIN text : text[i].k = k
    THEN CHOOSE i \in DOMAIN text : text[i].k = k /\ \A j \in 1..(i - 1) : text[j].k # k
    ELSE 0

LastOfKind(text, k) ==
    IF \E i \in DOMAIN text : text[i].k = k
    THEN CHOOSE i \in DOMAIN text : text[i].k = k /\ \A j \in (i + 1)..Len(text) : text[j].k # k
    ELSE 0

DropFirst(text, k) ==
    IF FirstOfKind(text, k) = 0 THEN text ELSE RemoveAt(text, FirstOfKind(text, k))

WithDefect(f, defect) ==
    LET t == f.text
        b == Val(f.bin)
        v == FirstOfKind(t, "version")
        m == FirstOfKind(t, "modtable")
        r == FirstOfKind(t, "row")
    IN  IF defect = "no_version" THEN [f EXCEPT !.text = DropFirst(t, "version")]
        ELSE IF defect = "version_3" THEN [f EXCEPT !.text[v].n = 3]
        ELSE IF defect = "no_flavor" THEN [f EXCEPT !.text = DropFirst(t, "flavor")]
        ELSE IF defect = "no_blank" THEN [f EXCEPT !.text = DropFirst(t, "blank")]
        ELSE IF defect = "no_module_table"
             THEN [f EXCEPT !.text = DropFirst(DropFirst(t, "modtable"), "modtable_legacy")]
        ELSE IF defect = "table_version_5" /\ m # 0 THEN [f EXCEPT !.text[m].n = 5]
        ELSE IF defect = "no_columns" THEN [f EXCEPT !.text = DropFirst(t, "columns")]
        ELSE IF defect = "short_row" /\ r # 0
             THEN [f EXCEPT !.text[r].toks = ButLast(@)]
        ELSE IF defect = "long_row" /\ r # 0
             THEN [f EXCEPT !.text[r].toks = Append(@, Str(<<"extra">>))]
        ELSE IF defect = "missing_row" /\ r # 0
             THEN [f EXCEPT !.text = RemoveAt(t, LastOfKind(t, "row"))]
        ELSE IF defect = "no_bb_table" THEN [f EXCEPT !.bin = None]
        ELSE IF defect = "short_bb_data" /\ b.data # <<>>
             THEN [f EXCEPT !.bin = Some(BinPart(b.bbcount, ButLast(b.data), None))]
        ELSE IF defect = "short_hit_data" /\ b.hit # None /\ Val(b.hit).data # <<>>
             THEN [f EXCEPT !.bin = Some([b EXCEPT !.hit =
                                     Some([Val(b.hit) EXCEPT !.data = ButLast(@)])])]
        ELSE f

InitRead ==
    /\ \E fl \in Flavors, ids \in SeqsUpTo({0, 1}, MaxMods),
          mids \in SeqsUpTo({0, MaxId}, MaxBlocks), ver \in {LEGACY, V3},
          hc \in HitCountChoices(MaxBlocks + 1), defect \in Defects :
           file = WithDefect(RawFile(ReadDoc(fl, ids, mids, ver, hc)), defect)
    /\ doc = NoDoc
    /\ pre = NoDoc
    /\ rdoc = NoDoc
    /\ out = NoOp

NextRead == ReadStrict \/ ReadPermissive

SpecRead == InitRead /\ [][NextRead]_vars

(* C2: every document returned by read(), in strict or in permissive mode, *)
(* has every block's module_id among the module ids, and hit_counts None   *)
(* or of exactly len(basic_blocks) entries.                                *)
C2_ReadConsistent ==
    (out.op = "read" /\ out.status = "ok") =>
        /\ ~DanglingBlockIn(rdoc)
        /\ ~HitMismatchIn(rdoc)

C2_Witness ==
    /\ out.op = "read" /\ out.status = "ok" /\ out.permissive
    /\ file.bin # None
    /\ Len(rdoc.basic_blocks) = 1
    /\ Val(file.bin).bbcount = 2
    /\ rdoc.hit_counts # None

(* Facts about the file being read                                         *)
HasLine(k) == \E i \in DOMAIN file.text : file.text[i].k = k
VersionOtherThan2 ==
    \E i \in DOMAIN file.text : file.text[i].k = "version" /\ file.text[i].n # 2
LacksModuleTableLine == ~HasLine("modtable") /\ ~HasLine("modtable_legacy")
LacksBBTableLine == file.bin = None
ColumnCount ==
    IF HasLine("columns") THEN Len(file.text[FirstOfKind(file.text, "columns")].toks)
    ELSE Len(<<"id", "base", "end", "entry", "path">>)
DeclaredModuleCount ==
    IF HasLine("modtable") THEN file.text[FirstOfKind(file.text, "modtable")].m
    ELSE IF HasLine("modtable_legacy")
         THEN file.text[FirstOfKind(file.text, "modtable_legacy")].m
    ELSE 0
RowArityDiffers ==
    \E i \in DOMAIN file.text :
        file.text[i].k = "row" /\ Len(file.text[i].toks) # ColumnCount
(* A row with too few values among the rows the declaration counts         *)
ShortCountedRow ==
    \E i \in DOMAIN file.text :
        /\ file.text[i].k = "row"
        /\ Len(file.text[i].toks) < ColumnCount
        /\ Cardinality({j \in 1..i : file.text[j].k = "row"}) <= DeclaredModuleCount
UnknownTableVersion ==
    \E i \in DOMAIN file.text :
        file.text[i].k = "modtable" /\ file.text[i].n \notin ModuleTableVersion

(* The text part and the BB table of the file parse                        *)
TablesParse ==
    /\ file.bin # None
    /\ ParseTextPart(file.text).status = "ok"
    /\ ParseBlocks(Val(file.bin)).status = "ok"

DeclaredHitCountDiffers ==
    /\ TablesParse
    /\ Val(file.bin).hit # None
    /\ Val(Val(file.bin).hit).count # Val(file.bin).bbcount

(* C5: when the hit-count table declares a count N that differs from the   *)
(* number of basic blocks parsed from the BB table, read() in strict mode  *)
(* raises an error, and read() in permissive mode returns a document whose *)
(* hit counts have been truncated, or padded with 1, to the block count.   *)
C5_HitCountMismatch ==
    (out.op = "read" /\ DeclaredHitCountDiffers) =>
        /\ ~out.permissive => out.status # "ok"
        /\ out.permissive =>
               /\ out.status = "ok"
               /\ rdoc.hit_counts # None
               /\ Len(Val(rdoc.hit_counts)) = Len(rdoc.basic_blocks)

----------------------------------------------------------------------------
(* core.py, CoverageSet: a document with its module map and block set.     *)
(* A Python dict is a sequence of [k, v] entries with distinct keys, in    *)
(* insertion order; a path is its sequence of characters.                  *)

MaxSets == 2

Range(s) == {s[i] : i \in DOMAIN s}

DictKeys(d) == {d[i].k : i \in DOMAIN d}

(* d[k] = v: an existing key keeps its position                            *)
DictSet(d, k, v) ==
    IF k \in DictKeys(d)
    THEN [i \in DOMAIN d |-> IF d[i].k = k THEN [k |-> k, v |-> v] ELSE d[i]]
    ELSE Append(d, [k |-> k, v |-> v])

RECURSIVE DictUpdate(_, _, _)
DictUpdate(d, items, from) ==
    IF from > Len(items) THEN d
    ELSE DictUpdate(DictSet(d, items[from].k, items[from].v), items, from + 1)

(* {m.id: m for m in modules}                                              *)
ModuleMap(modules) ==
    DictUpdate(<<>>, [i \in DOMAIN modules |-> [k |-> modules[i].id, v |-> modules[i]]], 1)

(* {**b, **a}: the entries of a win                                        *)
DictMergeFirstWins(a, b) == DictUpdate(DictUpdate(<<>>, b, 1), a, 1)

(* {**a, **b}                                                              *)
DictMerge(a, b) == DictUpdate(DictUpdate(<<>>, a, 1), b, 1)

DictValues(d) == [i \in DOMAIN d |-> d[i].v]

(* list(s) of a set s: the elements once each, in an order the set decides *)
ListsOf(S) == {s \in [1..Cardinality(S) -> S] : Range(s) = S}

CoverageSet(data) ==
    [data |-> data,
     _module_map |-> ModuleMap(data.modules),
     _blocks_set |-> Range(data.basic_blocks)]

__len__(self) == Len(self.data.basic_blocks)

_create_coverage_set(modules, blocks, flavor) ==
    CoverageSet(CoverageData(flavor, DictValues(modules), blocks, V2, None))

(* The outcome of an operation: the operands as the call leaves them and   *)
(* the object it returns                                                   *)
Outcome(self, other, result) == [self |-> self, other |-> other, result |-> result]

__or___in_place(self, other) ==
    {Outcome([self EXCEPT !._blocks_set = @ \cup other._blocks_set], other,
             _create_coverage_set(DictMerge(self._module_map, other._module_map),
                                  blocks, "covtool_union")) :
        blocks \in ListsOf(self._blocks_set \cup other._blocks_set)}

__or__(self, other) ==
    {Outcome(self, other,
             _create_coverage_set(DictMerge(self._module_map, other._module_map),
                                  blocks, "covtool_union")) :
        blocks \in ListsOf(self._blocks_set \cup other._blocks_set)}

__and__(self, other) ==
    {Outcome(self, other,
             _create_coverage_set(DictMerge(self._module_map, other._module_map),
                                  blocks, "covtool_intersect")) :
        blocks \in ListsOf(self._blocks_set \cap other._blocks_set)}

__sub__(self, other) ==
    {Outcome(self, other,
             _create_coverage_set(self._module_map, blocks, "covtool_diff")) :
        blocks \in ListsOf(self._blocks_set \ other._blocks_set)}

__xor___as_union(self, other) == __or__(self, other)

__xor__(self, other) ==
    {Outcome(self, other,
             _create_coverage_set(DictMerge(self._module_map, other._module_map),
                                  blocks, "covtool_symdiff")) :
        blocks \in ListsOf((self._blocks_set \ other._blocks_set)
                           \cup (other._blocks_set \ self._blocks_set))}

(* str.lower() on the characters the paths and patterns are made of        *)
LowerChar(c) ==
    CASE c = "A" -> "a"
      [] c = "B" -> "b"
      [] c = "C" -> "c"
      [] OTHER -> c

Lower(s) == [i \in DOMAIN s |-> LowerChar(s[i])]

(* needle in hay                                                           *)
Contains(hay, needle) ==
    \E i \in 0..(Len(hay) - Len(needle)) : SubSeq(hay, i + 1, i + Len(needle)) = needle

MatchesCaseSensitive(module, module_filter) == Contains(module.path, module_filter)

Matches(module, module_filter) == Contains(Lower(module.path), Lower(module_filter))

RECURSIVE MatchingIndices(_, _, _)
MatchingIndices(modules, module_filter, from) ==
    IF from > Len(modules) THEN <<>>
    ELSE IF Matches(modules[from], module_filter)
         THEN <<from>> \o MatchingIndices(modules, module_filter, from + 1)
         ELSE MatchingIndices(modules, module_filter, from + 1)

EmptyFiltered == CoverageSet(CoverageData("covtool_filtered", <<>>, <<>>, V2, None))

FilteredHitCounts(data, idx) ==
    IF data.hit_counts # None /\ Len(idx) > 0
    THEN Some(Pick(Val(data.hit_counts), idx))
    ELSE None

(* Lines 103-126: the blocks of the matching modules with their counts     *)
FilteredData(data, matching_modules, idx) ==
    CoverageData("covtool_filtered", matching_modules, Pick(data.basic_blocks, idx),
                 data.module_version, FilteredHitCounts(data, idx))

FilterBlocks(data, matching_modules) ==
    FilteredData(data, matching_modules,
                 IndicesWhere([i \in DOMAIN data.basic_blocks |->
                                  data.basic_blocks[i].module_id],
                              {matching_modules[i].id : i \in DOMAIN matching_modules}, 1))

FilterKeepBlocks(data, matching_modules) ==
    FilteredData(data, matching_modules, [i \in DOMAIN data.basic_blocks |-> i])

FilterWith(self, matching_modules) ==
    IF matching_modules = <<>> THEN Outcome(self, self, EmptyFiltered)
    ELSE Outcome(self, self, CoverageSet(FilterBlocks(self.data, matching_modules)))

filter_by_module_keep_blocks(self, module_filter) ==
    Outcome(self, self,
            CoverageSet(FilterKeepBlocks(self.data,
                Pick(self.data.modules,
                     MatchingIndices(self.data.modules, module_filter, 1)))))

filter_by_module(self, module_filter) ==
    FilterWith(self, Pick(self.data.modules,
                          MatchingIndices(self.data.modules, module_filter, 1)))

(* Counter: a function from the keys counted so far                        *)
Increment(counts, key) ==
    IF key \in DOMAIN counts THEN [counts EXCEPT ![key] = @ + 1]
    ELSE [k \in DOMAIN counts \cup {key} |-> IF k = key THEN 1 ELSE counts[k]]

block_key(block) == <<block.start, block.module_id, block.size>>

RECURSIVE CountEveryBlock(_, _, _)
CountEveryBlock(counts, blocks, from) ==
    IF from > Len(blocks) THEN counts
    ELSE CountEveryBlock(Increment(counts, blocks[from]), blocks, from + 1)

RECURSIVE CountSet(_, _, _, _)
(* Lines 158-164: one coverage set, each block key at most once            *)
CountSet(counts, blocks, from, seen_in_this_set) ==
    IF from > Len(blocks) THEN counts
    ELSE IF block_key(blocks[from]) \notin seen_in_this_set
         THEN CountSet(Increment(counts, blocks[from]), blocks, from + 1,
                       seen_in_this_set \cup {block_key(blocks[from])})
         ELSE CountSet(counts, blocks, from + 1, seen_in_this_set)

RECURSIVE CountSets(_, _, _)
CountSets(counts, all_sets, from) ==
    IF from > Len(all_sets) THEN counts
    ELSE CountSets(CountSet(counts, all_sets[from].data.basic_blocks, 1, {}),
                   all_sets, from + 1)

RECURSIVE CountSetsNoSeen(_, _, _)
CountSetsNoSeen(counts, all_sets, from) ==
    IF from > Len(all_sets) THEN counts
    ELSE CountSetsNoSeen(CountEveryBlock(counts, all_sets[from].data.basic_blocks, 1),
                         all_sets, from + 1)

get_rarity_info_no_seen(self, all_sets) == CountSetsNoSeen(<<>>, all_sets, 1)

get_rarity_info(self, all_sets) == CountSets(<<>>, all_sets, 1)

(* write_to_file: write(self.data, filepath)                               *)
write_to_file(self) == write(self.data)

----------------------------------------------------------------------------
(* Coverage sets the operations are exercised on: doc is a pair of sets,   *)
(* rdoc the set returned by the last operation.  As in the commands of     *)
(* cli.py, a set operation combines the loaded sets and filter_by_module   *)
(* is applied to a loaded set or to the last result, any number of times   *)
(* (result = result.filter_by_module(module)).  Both documents of the pair *)
(* pass strict validation, as read() and build() return them; a block list *)
(* may repeat a block, as a drcov file may.                                *)

SetIds == {0, 1}

SetPath(owner, id) ==
    IF id = 0 THEN (IF owner = 1 THEN <<"/", "A", "b">> ELSE <<"/", "a", "B", "c">>)
    ELSE <<"/", "C">>

SetModule(owner, id) ==
    ModuleEntry(id, 4096 * owner, 4096 * owner + 256, SetPath(owner, id), 0,
                None, None, None, None)

Patterns == {<<"a", "B">>, <<"c">>, <<"z">>, <<>>}

IdLists == {ids \in SeqsUpTo(SetIds, MaxMods) :
               \A i, j \in DOMAIN ids : ids[i] = ids[j] => i = j}

SetBlockChoices(ids) ==
    {BasicBlock(16, 4, m) : m \in Range(ids)}
        \cup {BasicBlock(32, 4, m) : m \in Range(ids) \cap {0}}

AlignedHitCounts(blocks) == {None, Some([k \in DOMAIN blocks |-> 10 + k])}

SetDoc(owner, ids, blocks, hc) ==
    CoverageData(_FLAVOR_STANDARD, [i \in DOMAIN ids |-> SetModule(owner, ids[i])],
                 blocks, V2, hc)

(* Block lists of the second file: each block once, in increasing order    *)
Increasing(blocks) ==
    \A i, j \in DOMAIN blocks :
        i < j => (blocks[i].module_id < blocks[j].module_id
                  \/ (blocks[i].module_id = blocks[j].module_id
                      /\ blocks[i].start < blocks[j].start))

NoCall(s) ==
    [op |-> "none", status |-> "ok", permissive |-> FALSE, self |-> s, other |-> s,
     arg |-> <<>>, value |-> <<>>]

InitSet ==
    /\ \E idsA \in IdLists, idsB \in {<<1, 0>>} :
         \E ba \in SeqsUpTo(SetBlockChoices(idsA), MaxBlocks),
            bb \in {b \in SeqsUpTo(SetBlockChoices(idsB), MaxBlocks) : Increasing(b)} :
           \E hca \in AlignedHitCounts(ba) :
               doc = <<CoverageSet(SetDoc(1, idsA, ba, hca)),
                       CoverageSet(SetDoc(2, idsB, bb, None))>>
    /\ rdoc = doc[1]
    /\ pre = [self |-> doc[1], other |-> doc[1]]
    /\ out = NoCall(doc[1])
    /\ file = NoFile

Loaded == {doc[1], doc[2]}
JustLoaded == out.op = "none"
Operands == {doc[1], doc[2], rdoc}

(* A call self.op(other): pre keeps the operands before it, out the        *)
(* operands after it, the argument and any value returned beside a set     *)
Applied(op, self, other, o, arg, value) ==
    /\ rdoc' = o.result
    /\ pre' = [self |-> self, other |-> other]
    /\ out' = [op |-> op, status |-> "ok", permissive |-> FALSE,
               self |-> o.self, other |-> o.other, arg |-> arg, value |-> value]
    /\ UNCHANGED <<doc, file>>

Or ==
    /\ JustLoaded
    /\ \E self \in Loaded, other \in Loaded :
           \E o \in __or__(self, other) : Applied("or", self, other, o, <<>>, <<>>)

And ==
    /\ JustLoaded
    /\ \E self \in Loaded, other \in Loaded :
           \E o \in __and__(self, other) : Applied("and", self, other, o, <<>>, <<>>)

Sub ==
    /\ JustLoaded
    /\ \E self \in Loaded, other \in Loaded :
           \E o \in __sub__(self, other) : Applied("sub", self, other, o, <<>>, <<>>)

Xor ==
    /\ JustLoaded
    /\ \E self \in Loaded, other \in Loaded :
           \E o \in __xor__(self, other) : Applied("xor", self, other, o, <<>>, <<>>)

FilterByModule ==
    \E self \in Operands, p \in Patterns :
        Applied("filter_by_module", self, self, filter_by_module(self, p), p, <<>>)

NextSet ==
    \/ Or
    \/ And
    \/ Sub
    \/ Xor
    \/ FilterByModule

SpecSet == InitSet /\ [][NextSet]_vars

(* get_rarity_info over lists of the loaded sets; it returns a dict and    *)
(* no coverage set                                                         *)
GetRarityInfo ==
    \E self \in Loaded, all_sets \in SeqsUpTo(Loaded, MaxSets) :
        Applied("get_rarity_info", self, self, Outcome(self, self, rdoc), all_sets,
                get_rarity_info(self, all_sets))

SpecRarity == InitSet /\ [][GetRarityInfo]_vars

----------------------------------------------------------------------------
(* Claims about CoverageSet                                                *)

SetOps == {"or", "and", "sub", "xor"}

BlocksOf(s) == {s.data.basic_blocks[i] : i \in DOMAIN s.data.basic_blocks}

HasRepeatedBlock(s) ==
    \E i, j \in DOMAIN s.data.basic_blocks :
        i # j /\ s.data.basic_blocks[i] = s.data.basic_blocks[j]

ExpectedBlocks(op, a, b) ==
    CASE op = "or" -> a \cup b
      [] op = "and" -> a \cap b
      [] op = "sub" -> a \ b
      [] op = "xor" -> (a \cup b) \ (a \cap b)

(* C13: the block set of A|B, A&B, A-B, A^B is the union, intersection,    *)
(* difference, symmetric difference of the operands' block sets, blocks    *)
(* compared by (start, size, module_id), and the result's block list holds *)
(* each block exactly once, so len(result) = len(result.blocks).           *)
C13_SetAlgebra ==
    out.op \in SetOps =>
        /\ rdoc._blocks_set = ExpectedBlocks(out.op, BlocksOf(pre.self), BlocksOf(pre.other))
        /\ BlocksOf(rdoc) = rdoc._blocks_set
        /\ \A i, j \in DOMAIN rdoc.data.basic_blocks :
               rdoc.data.basic_blocks[i] = rdoc.data.basic_blocks[j] => i = j
        /\ __len__(rdoc) = Cardinality(rdoc._blocks_set)

C13_Witness ==
    /\ out.op = "xor"
    /\ HasRepeatedBlock(pre.self)
    /\ pre.self # pre.other
    /\ BlocksOf(pre.self) \cap BlocksOf(pre.other) # {}
    /\ __len__(rdoc) = 1

(* C14: len(A | B) = len(A) + len(B) - len(A & B), len being the length    *)
(* of the document's block list.                                           *)
C14_InclusionExclusion ==
    out.op = "or" =>
        \A i \in __and__(pre.self, pre.other) :
            __len__(rdoc) = __len__(pre.self) + __len__(pre.other) - __len__(i.result)

(* C15: the four set operations and filter_by_module leave their operands  *)
(* as they were (document, module map, block set), and the result of a set *)
(* operation has hit_counts None even when both operands have hit counts.  *)
C15_OperandsUnchanged ==
    out.op \in SetOps \cup {"filter_by_module"} =>
        /\ out.self = pre.self
        /\ out.other = pre.other
        /\ out.op \in SetOps => rdoc.data.hit_counts = None

C15_Witness ==
    /\ out.op = "or"
    /\ pre.self.data.hit_counts # None
    /\ pre.other.data.hit_counts # None
    /\ __len__(pre.self) = 2
    /\ __len__(rdoc) = 2

(* The entry a module map holds for an id                                  *)
Entries(map, id) == {map[i].v : i \in {j \in DOMAIN map : map[j].k = id}}

(* C16: A|B, A&B and A^B carry the merge of the operands' module maps, B's *)
(* entry replacing A's for an id in both, whether or not a surviving block *)
(* refers to the module; A-B carries exactly A's module map.               *)
C16_ModuleIndex ==
    /\ out.op \in {"or", "and", "xor"} =>
           /\ DictKeys(rdoc._module_map) =
                  DictKeys(pre.self._module_map) \cup DictKeys(pre.other._module_map)
           /\ \A id \in DictKeys(rdoc._module_map) :
                  Entries(rdoc._module_map, id) =
                      IF id \in DictKeys(pre.other._module_map)
                      THEN Entries(pre.other._module_map, id)
                      ELSE Entries(pre.self._module_map, id)
           /\ Range(rdoc.data.modules) = Range(DictValues(rdoc._module_map))
    /\ out.op = "sub" => rdoc._module_map = pre.self._module_map

C16_Witness ==
    /\ out.op = "and"
    /\ \E id \in DictKeys(pre.self._module_map) \cap DictKeys(pre.other._module_map) :
           /\ Entries(pre.self._module_map, id) # Entries(pre.other._module_map, id)
           /\ Entries(rdoc._module_map, id) = Entries(pre.other._module_map, id)
    /\ \E id \in DictKeys(rdoc._module_map) :
           \A b \in rdoc._blocks_set : b.module_id # id
    /\ rdoc._blocks_set # {}

(* C17: from documents that pass strict validation, every coverage set the *)
(* set operations and filter_by_module return wraps a document that passes *)
(* strict validation, so write_to_file on it does not fail validation.     *)
C17_ResultsValid ==
    out.op \in SetOps \cup {"filter_by_module"} =>
        /\ StrictlyValid(rdoc.data)
        /\ ~DuplicateIdsIn(rdoc.data)
        /\ ~DanglingBlockIn(rdoc.data)
        /\ ~HitMismatchIn(rdoc.data)
        /\ write_to_file(rdoc).status # "DrCovError"

C17_Witness ==
    /\ out.op = "filter_by_module"
    /\ pre.self.data.flavor = "covtool_union"
    /\ Len(rdoc.data.modules) = 1
    /\ __len__(rdoc) = 2
    /\ __len__(pre.self) = 3

(* The path contains the pattern, letter case aside                        *)
PathHas(path, pattern) ==
    \E off \in 0..(Len(path) - Len(pattern)) :
        \A j \in DOMAIN pattern : LowerChar(path[off + j]) = LowerChar(pattern[j])

MatchingIds(data, pattern) ==
    {data.modules[i].id : i \in {j \in DOMAIN data.modules :
                                    PathHas(data.modules[j].path, pattern)}}

Surviving(data, pattern) ==
    {i \in DOMAIN data.basic_blocks :
        data.basic_blocks[i].module_id \in MatchingIds(data, pattern)}

(* the k-th element of an index set, in increasing order                   *)
Kth(idx, k) == CHOOSE i \in idx : Cardinality({j \in idx : j < i}) = k - 1

(* C18: filter_by_module(pattern) returns a new set whose modules are the  *)
(* source modules whose path contains the pattern case-insensitively, in   *)
(* source order, whose blocks are the source blocks of those modules, in   *)
(* source order, and whose hit counts, when present, pair each surviving   *)
(* block with the count it had; no match gives no modules and no blocks.   *)
C18_FilterByModule ==
    out.op = "filter_by_module" =>
        LET src == pre.self.data
            res == rdoc.data
            mods == {i \in DOMAIN src.modules : PathHas(src.modules[i].path, out.arg)}
            keep == Surviving(src, out.arg)
        IN  /\ Len(res.modules) = Cardinality(mods)
            /\ \A k \in DOMAIN res.modules : res.modules[k] = src.modules[Kth(mods, k)]
            /\ Len(res.basic_blocks) = Cardinality(keep)
            /\ \A k \in DOMAIN res.basic_blocks :
                   res.basic_blocks[k] = src.basic_blocks[Kth(keep, k)]
            /\ res.hit_counts # None =>
                   /\ src.hit_counts # None
                   /\ Len(Val(res.hit_counts)) = Len(res.basic_blocks)
                   /\ \A k \in DOMAIN res.basic_blocks :
                          Val(res.hit_counts)[k] = Val(src.hit_counts)[Kth(keep, k)]
            /\ mods = {} => (res.modules = <<>> /\ res.basic_blocks = <<>>)

C18_Witness ==
    /\ out.op = "filter_by_module"
    /\ out.arg = <<"a", "B">>
    /\ Len(pre.self.data.modules) = 2
    /\ rdoc.data.modules = <<pre.self.data.modules[2]>>
    /\ rdoc.data.modules[1].path = <<"/", "A", "b">>
    /\ __len__(pre.self) = 2
    /\ rdoc.data.basic_blocks = <<pre.self.data.basic_blocks[2]>>
    /\ rdoc.data.hit_counts = Some(<<12>>)

(* C19: whenever the source document has hit counts, the result of         *)
(* filter_by_module has a hit-count array as long as its block list, for   *)
(* every pattern, one that matches a module without blocks or matches no   *)
(* module included.                                                        *)
C19_FilterHitCountsAligned ==
    (out.op = "filter_by_module" /\ pre.self.data.hit_counts # None) =>
        /\ rdoc.data.hit_counts # None
        /\ Len(Val(rdoc.data.hit_counts)) = Len(rdoc.data.basic_blocks)

(* C20: get_rarity_info(all_sets) maps each block of at least one set of   *)
(* all_sets to the number of sets of all_sets that contain it; a block     *)
(* repeated in one set's list adds 1 for that set, every value lies in     *)
(* 1..len(all_sets), and the receiver does not matter.                     *)
C20_RarityInfo ==
    out.op = "get_rarity_info" =>
        /\ DOMAIN out.value = UNION {BlocksOf(out.arg[i]) : i \in DOMAIN out.arg}
        /\ \A b \in DOMAIN out.value :
               /\ out.value[b] =
                      Cardinality({i \in DOMAIN out.arg : b \in BlocksOf(out.arg[i])})
               /\ out.value[b] \in 1..Len(out.arg)
        /\ \A s \in Loaded : get_rarity_info(s, out.arg) = out.value

C20_Witness ==
    /\ out.op = "get_rarity_info"
    /\ Len(out.arg) = 2
    /\ out.arg[1] # out.arg[2]
    /\ HasRepeatedBlock(out.arg[1])
    /\ \E b \in DOMAIN out.value : out.value[b] = 2
    /\ \E b \in DOMAIN out.value : out.value[b] = 1

(***************************************************************************)
(* Module lookup: CoverageData.find_module and                             *)
(* CoverageSet.get_absolute_addresses                                      *)
(***************************************************************************)

(* modules[i] of a Python list: 0-based, a negative index counts from the  *)
(* end, anything outside raises IndexError                                 *)
InRange(s, i) == -Len(s) <= i /\ i < Len(s)
At(s, i) == IF i >= 0 THEN s[i + 1] ELSE s[Len(s) + i + 1]

RECURSIVE FirstWithId(_, _, _)
FirstWithId(modules, module_id, from) ==
    IF from > Len(modules) THEN None
    ELSE IF modules[from].id = module_id THEN Some(modules[from])
    ELSE FirstWithId(modules, module_id, from + 1)

Found(status, module) == [status |-> status, module |-> module]

find_module_linear(d, module_id) == Found("ok", FirstWithId(d.modules, module_id, 1))

find_module(d, module_id) ==
    IF module_id < Len(d.modules)
    THEN IF ~InRange(d.modules, module_id) THEN Found("IndexError", None)
         ELSE IF At(d.modules, module_id).id = module_id
              THEN Found("ok", Some(At(d.modules, module_id)))
              ELSE find_module_linear(d, module_id)
    ELSE find_module_linear(d, module_id)

Addresses(status, value) == [status |-> status, value |-> value]

AddAddress(acc, found, block) ==
    IF acc.status # "ok" THEN acc
    ELSE IF found.status # "ok" THEN Addresses(found.status, {})
    ELSE IF found.module = None THEN acc
    ELSE Addresses("ok", acc.value \cup {Val(found.module).base + block.start})

RECURSIVE AddressesFrom(_, _, _)
AddressesFrom(data, from, acc) ==
    IF from > Len(data.basic_blocks) THEN acc
    ELSE AddressesFrom(data, from + 1,
             AddAddress(acc, find_module(data, data.basic_blocks[from].module_id),
                        data.basic_blocks[from]))

get_absolute_addresses_offsets(self) ==
    Addresses("ok", {self.data.basic_blocks[i].start : i \in DOMAIN self.data.basic_blocks})

get_absolute_addresses(self) == AddressesFrom(self.data, 1, Addresses("ok", {}))

LookupIds == -1..(MaxId + 1)

Looked(op, arg, r, value) ==
    /\ out' = [op |-> op, status |-> r.status, permissive |-> FALSE, arg |-> arg,
               value |-> value]
    /\ pre' = doc
    /\ UNCHANGED <<doc, file, rdoc>>

FindModule ==
    \E module_id \in LookupIds :
        Looked("find_module", module_id, find_module(doc, module_id),
               find_module(doc, module_id).module)

GetAbsoluteAddresses ==
    Looked("get_absolute_addresses", 0, get_absolute_addresses(CoverageSet(doc)),
           get_absolute_addresses(CoverageSet(doc)).value)

NextLookup == FindModule \/ GetAbsoluteAddresses

SpecLookup == InitValidate /\ [][NextLookup]_vars

ModulesWithId(d, id) == {i \in DOMAIN d.modules : d.modules[i].id = id}

Resolves(d, block) == ModulesWithId(d, block.module_id) # {}

C26_FindModuleFirstMatch ==
    out.op = "find_module" =>
        /\ out.status = "ok"
        /\ ModulesWithId(doc, out.arg) = {} => out.value = None
        /\ ModulesWithId(doc, out.arg) # {} =>
               out.value = Some(doc.modules[CHOOSE i \in ModulesWithId(doc, out.arg) :
                                   \A j \in ModulesWithId(doc, out.arg) : i <= j])

(***************************************************************************)
(* Windows fields (checksum, timestamp) in written module tables           *)
(***************************************************************************)

(* The column names on the file's Columns line, none when it has no such   *)
(* line; the rows of its module table; the field a row has under a column  *)
(* that precedes the path                                                  *)
FileColumns(f) ==
    IF \E i \in DOMAIN f.text : f.text[i].k = "columns"
    THEN ColumnNames(f.text[CHOOSE i \in DOMAIN f.text : f.text[i].k = "columns"].toks)
    ELSE <<>>

FileRows(f) == SelectSeq(f.text, LAMBDA line : line.k = "row")

RowField(f, row, c) ==
    row.toks[CHOOSE k \in DOMAIN FileColumns(f) : FileColumns(f)[k] = c]

OrZero(o) == IF o = None THEN 0 ELSE Val(o)

WroteValid == out.op \in {"write", "read"} /\ file.exists /\ PassesStrict(doc)

WindowsColumnsWritten ==
    /\ Range(FileColumns(file)) \cap {"checksum", "timestamp"} = {"checksum", "timestamp"}
    /\ Len(FileRows(file)) = Len(doc.modules)
    /\ \A i \in DOMAIN doc.modules :
           /\ RowField(file, FileRows(file)[i], "checksum")
                  = Hex(OrZero(doc.modules[i].checksum))
           /\ RowField(file, FileRows(file)[i], "timestamp")
                  = Hex(OrZero(doc.modules[i].timestamp))
    /\ out.op = "read" =>
           /\ out.status = "ok"
           /\ \A i \in DOMAIN doc.modules :
                  /\ rdoc.modules[i].checksum = Some(OrZero(doc.modules[i].checksum))
                  /\ rdoc.modules[i].timestamp = Some(OrZero(doc.modules[i].timestamp))

WindowsColumnsAbsent ==
    /\ Range(FileColumns(file)) \cap {"checksum", "timestamp"} = {}
    /\ out.op = "read" =>
           /\ out.status = "ok"
           /\ \A i \in DOMAIN doc.modules :
                  rdoc.modules[i].checksum = None /\ rdoc.modules[i].timestamp = None

(* C22 as stated: for a document of any module-table version, the written  *)
(* table has the checksum and timestamp columns, with both values in every *)
(* row (0 for a missing one) and the same values read back, when at least  *)
(* one module has a checksum or a timestamp, and has neither column when   *)
(* no module has one.                                                      *)
C22_AsStated ==
    WroteValid =>
        IF HasWindowsFields(doc) THEN WindowsColumnsWritten ELSE WindowsColumnsAbsent

(* C22: the same for a document of module-table version 2, 3 or 4; a       *)
(* legacy table has no Columns line and never carries checksum or          *)
(* timestamp, which read back as None.                                     *)
C22_WindowsFields ==
    WroteValid =>
        IF doc.module_version # LEGACY /\ HasWindowsFields(doc)
        THEN WindowsColumnsWritten
        ELSE WindowsColumnsAbsent

C22_Witness ==
    /\ WroteValid
    /\ out.op = "read"
    /\ doc.module_version = V3
    /\ Len(doc.modules) = 2
    /\ doc.modules[1].checksum = None /\ doc.modules[1].timestamp = None
    /\ doc.modules[2].checksum # None /\ doc.modules[2].timestamp = None
    /\ rdoc.modules[1].checksum = Some(0)
    /\ rdoc.modules[2].timestamp = Some(0)

(***************************************************************************)
(* write() to a path and to a stream                                       *)
(***************************************************************************)

(* _Writer.write_stream(data, stream) on a stream positioned at its end:   *)
(* validation comes first, so a document that fails it leaves the stream   *)
(* as it was; the output of a valid document is that of write().           *)
write_stream(d, stream) ==
    IF validate(d, FALSE).status # "ok"
    THEN [status |-> "DrCovError", file |-> stream]
    ELSE write(d)

(* Documents to write: sequential module ids, blocks of modules 0 and 1    *)
(* (known or not), each block ordinary, with a size of 2^16 or with a      *)
(* negative start, and hit counts absent, aligned (ordinary or negative)   *)
(* or too short.                                                           *)
BlockShapes(m) == {BasicBlock(16, 4, m), BasicBlock(16, 65536, m), BasicBlock(-1, 4, m)}

WriteHitCounts(n) ==
    {None, Some([k \in 1..n |-> 10 + k]), Some([k \in 1..n |-> -1]),
     Some([k \in 1..(n - 1) |-> 10 + k])}

WriteDocs ==
    {CoverageData(_FLAVOR_STANDARD, CodecModules(n, 0, [i \in 1..n |-> <<None, None, None, None>>]),
                  blocks, V2, hc) :
        n \in 0..MaxMods,
        blocks \in UNION {[1..k -> UNION {BlockShapes(m) : m \in {0, 1}}] : k \in 0..MaxBlocks},
        hc \in UNION {WriteHitCounts(k) : k \in 1..MaxBlocks}}

ExistingFile ==
    write(CoverageData(_FLAVOR_STANDARD, <<CodecModule(1, 0, <<None, None, None, None>>)>>,
                       <<BasicBlock(16, 4, 0)>>, V2, None)).file

(* file is the destination: no file at the path, an existing file, or an   *)
(* empty one (also a fresh stream); pre is the destination before the call *)
InitWrite ==
    /\ doc \in WriteDocs
    /\ file \in {NoFile, ExistingFile, EmptyFile}
    /\ pre = file
    /\ rdoc = NoDoc
    /\ out = NoOp

Wrote(op, w) ==
    /\ file' = w.file
    /\ out' = [op |-> op, status |-> w.status, permissive |-> FALSE]
    /\ pre' = file
    /\ UNCHANGED <<doc, rdoc>>

WritePath == Wrote("write", write(doc))

WriteStream == file = EmptyFile /\ Wrote("write_stream", write_stream(doc, file))

NextWrite == WritePath \/ WriteStream

SpecWrite == InitWrite /\ [][NextWrite]_vars

WriteCall == out.op \in {"write", "write_stream"}

C30_WidthsEnforced ==
    (WriteCall /\ StrictlyValid(doc)) =>
        /\ \A i \in DOMAIN doc.basic_blocks :
               /\ PackableU(doc.basic_blocks[i].start, 4)
               /\ PackableU(doc.basic_blocks[i].size, 2)
               /\ PackableU(doc.basic_blocks[i].module_id, 2)
        /\ doc.hit_counts # None =>
               \A i \in DOMAIN Val(doc.hit_counts) : PackableU(Val(doc.hit_counts)[i], 4)
        /\ out.status # "struct.error"

(***************************************************************************)
(* Files whose basic-block table is in the legacy ASCII form               *)
(***************************************************************************)

(* The bytes of the text DynamoRIO dumps for a block,                      *)
(* "module[%3u]: 0x%016x, %3u\n", optionally preceded by the line          *)
(* "module id, start, size:\n"                                             *)
DigitByte(d) == IF d < 10 THEN 48 + d ELSE 87 + d

RECURSIVE Digits(_, _)
Digits(n, base) ==
    IF n < base THEN <<DigitByte(n)>>
    ELSE Append(Digits(n \div base, base), DigitByte(n % base))

RECURSIVE PadLeft(_, _, _)
PadLeft(s, width, byte) == IF Len(s) >= width THEN s ELSE PadLeft(<<byte>> \o s, width, byte)

AsciiMarker ==
    <<109, 111, 100, 117, 108, 101, 32, 105, 100, 44, 32, 115, 116, 97, 114, 116, 44, 32,
      115, 105, 122, 101, 58, 10>>

AsciiBlockLine(bb) ==
    <<109, 111, 100, 117, 108, 101, 91>> \o PadLeft(Digits(bb.module_id, 10), 3, 32)
    \o <<93, 58, 32, 48, 120>> \o PadLeft(Digits(bb.start, 16), 16, 48)
    \o <<44, 32>> \o PadLeft(Digits(bb.size, 10), 3, 32) \o <<10>>

AsciiFile(d, marker) ==
    File(TextLines(d),
         Some(BinPart(Len(d.basic_blocks),
                      (IF marker THEN AsciiMarker ELSE <<>>)
                      \o Flatten([i \in DOMAIN d.basic_blocks |->
                                     AsciiBlockLine(d.basic_blocks[i])]),
                      None)))

(* doc is the coverage the file states, file its ASCII form                *)
InitAscii ==
    /\ \E n \in 1..MaxMods, ver \in ModuleTableVersion, marker \in BOOLEAN,
          mids \in SeqsUpTo({0, 1}, MaxBlocks) \ {<<>>} :
           /\ \A i \in DOMAIN mids : mids[i] < n
           /\ doc = CoverageData(_FLAVOR_STANDARD,
                                 CodecModules(n, 0, [i \in 1..n |-> <<None, None, None, None>>]),
                                 BlocksInModules(mids), ver, None)
           /\ file = AsciiFile(doc, marker)
    /\ pre = doc
    /\ rdoc = NoDoc
    /\ out = NoOp

SpecAscii == InitAscii /\ [][NextRead]_vars

(* C24: read() accepts a file whose basic-block table is in the legacy     *)
(* ASCII form and returns one block per line, with the module id, offset   *)
(* and size that line gives.                                               *)
C24_AsciiTableRead ==
    out.op = "read" =>
        /\ out.status = "ok"
        /\ rdoc.basic_blocks = doc.basic_blocks

(***************************************************************************)
(* Module objects shared between coverage sets                             *)
(***************************************************************************)

(* A ModuleEntry is a mutable object and a list or dict holds references   *)
(* to it.  Each module created when a file is loaded gets an identity obj; *)
(* copying the record copies the reference, and an assignment to a field   *)
(* of the object shows wherever a record of that identity is held.         *)
Object(module, obj) == [obj |-> obj] @@ module

(* cli.py edit --rebase: module.base = new_addr; module.end = new_addr + size *)
rebase(module, new_addr) ==
    [module EXCEPT !.base = new_addr, !.end = new_addr + (module.end - module.base)]

AssignedIn(modules, obj, new_addr) ==
    [i \in DOMAIN modules |->
        IF modules[i].obj = obj THEN rebase(modules[i], new_addr) ELSE modules[i]]

Seen(s, obj, new_addr) ==
    [s EXCEPT !.data.modules = AssignedIn(@, obj, new_addr),
              !._module_map = [i \in DOMAIN @ |->
                                  [k |-> @[i].k,
                                   v |-> IF @[i].v.obj = obj THEN rebase(@[i].v, new_addr)
                                         ELSE @[i].v]]]

AliasDoc(owner, ids) ==
    CoverageData(_FLAVOR_STANDARD,
                 [i \in DOMAIN ids |-> Object(SetModule(owner, ids[i]), 10 * owner + i)],
                 [i \in DOMAIN ids |-> BasicBlock(16 * owner, 4, ids[i])], V2, None)

InitAlias ==
    /\ \E idsA \in IdLists, idsB \in {<<1, 0>>, <<0>>} :
           doc = <<CoverageSet(AliasDoc(1, idsA)), CoverageSet(AliasDoc(2, idsB))>>
    /\ rdoc = doc[1]
    /\ pre = [self |-> doc[1], other |-> doc[1]]
    /\ out = NoCall(doc[1])
    /\ file = NoFile

NewBases == {12288}

Holder(via) == IF via = "result" THEN rdoc ELSE IF via = "self" THEN doc[1] ELSE doc[2]

(* An in-place rebase of a module reached through the result of the last   *)
(* operation or through one of the loaded sets                             *)
Rebase ==
    /\ ~JustLoaded
    /\ \E via \in {"result", "self", "other"}, new_addr \in NewBases :
         \E k \in DOMAIN Holder(via).data.modules :
            /\ Holder(via).data.modules[k].base # new_addr
            /\ doc' = <<Seen(doc[1], Holder(via).data.modules[k].obj, new_addr),
                        Seen(doc[2], Holder(via).data.modules[k].obj, new_addr)>>
            /\ rdoc' = Seen(rdoc, Holder(via).data.modules[k].obj, new_addr)
            /\ pre' = [self |-> doc[1], other |-> doc[2]]
            /\ out' = [op |-> "rebase", status |-> "ok", permissive |-> FALSE,
                       self |-> doc'[1], other |-> doc'[2], arg |-> via, value |-> rdoc]
            /\ file' = file

NextAlias == NextSet \/ Rebase

SpecAlias == InitAlias /\ [][NextAlias]_vars

(* C25: the result of a set operation or of filter_by_module shares no     *)
(* mutable state with its operands: an in-place change to a module of the  *)
(* result leaves both loaded sets as they were, and an in-place change to  *)
(* a module of a loaded set leaves the result as it was.                   *)
C25_NoSharedState ==
    out.op = "rebase" =>
        /\ out.arg = "result" => (doc[1] = pre.self /\ doc[2] = pre.other)
        /\ out.arg # "result" => rdoc = out.value

(***************************************************************************)
(* covtool edit: rebase, adjust-offsets and filter in place, then write    *)
(***************************************************************************)

MaxStart == 64      \* largest block start an adjust-offsets may produce

Edited(status, d, modified) == [status |-> status, doc |-> d, modified |-> modified]

(* Lines 437-473, the form "module->addr" of a rebase specification        *)
edit_rebase(d, module_name, new_addr) ==
    IF Len(MatchingIndices(d.modules, module_name, 1)) # 1 THEN Edited("error", d, FALSE)
    ELSE Edited("ok",
                [d EXCEPT !.modules[MatchingIndices(d.modules, module_name, 1)[1]] =
                              rebase(@, new_addr)],
                TRUE)

(* Lines 528-548: the blocks of the module move by offset, those that      *)
(* would start below 0 are skipped, the other blocks are kept              *)
RECURSIVE AdjustedBlocks(_, _, _, _)
AdjustedBlocks(blocks, module_id, offset, from) ==
    IF from > Len(blocks) THEN <<>>
    ELSE IF blocks[from].module_id # module_id
    THEN <<blocks[from]>> \o AdjustedBlocks(blocks, module_id, offset, from + 1)
    ELSE IF blocks[from].start + offset < 0
    THEN AdjustedBlocks(blocks, module_id, offset, from + 1)
    ELSE <<BasicBlock(blocks[from].start + offset, blocks[from].size, module_id)>>
         \o AdjustedBlocks(blocks, module_id, offset, from + 1)

adjusted_count(blocks, module_id, offset) ==
    Cardinality({i \in DOMAIN blocks :
                    blocks[i].module_id = module_id /\ blocks[i].start + offset >= 0})

AdjustModule(d, module, offset) ==
    Edited("ok",
           [d EXCEPT !.basic_blocks = AdjustedBlocks(@, module.id, offset, 1)],
           adjusted_count(d.basic_blocks, module.id, offset) > 0)

(* Lines 503-556                                                           *)
edit_adjust_offsets(d, module_name, offset) ==
    IF Len(MatchingIndices(d.modules, module_name, 1)) # 1 THEN Edited("error", d, FALSE)
    ELSE AdjustModule(d, d.modules[MatchingIndices(d.modules, module_name, 1)[1]], offset)

(* Lines 560-565: the ids of the modules some pattern matches              *)
modules_to_keep(d, patterns) ==
    {d.modules[i].id : i \in {j \in DOMAIN d.modules :
                                 \E p \in patterns : Matches(d.modules[j], p)}}

KeptBlockIndices(d, keep) ==
    IndicesWhere([i \in DOMAIN d.basic_blocks |-> d.basic_blocks[i].module_id], keep, 1)

KeptModuleIndices(d, keep) ==
    IndicesWhere([i \in DOMAIN d.modules |-> d.modules[i].id], keep, 1)

(* Lines 599-603: module_id_map[module.id] = i, a later module of the same *)
(* id replacing an earlier one                                             *)
module_id_map(filtered_modules, id) ==
    (CHOOSE i \in DOMAIN filtered_modules :
        /\ filtered_modules[i].id = id
        /\ \A j \in DOMAIN filtered_modules : filtered_modules[j].id = id => j <= i) - 1

Reindexed(filtered_modules, filtered_blocks, hit_counts, version, flavor) ==
    CoverageData(flavor,
                 [i \in DOMAIN filtered_modules |-> [filtered_modules[i] EXCEPT !.id = i - 1]],
                 [i \in DOMAIN filtered_blocks |->
                     BasicBlock(filtered_blocks[i].start, filtered_blocks[i].size,
                                module_id_map(filtered_modules, filtered_blocks[i].module_id))],
                 version, hit_counts)

(* Lines 575-596: the counts are copied only when hit_counts is truthy,    *)
(* by the index of the block in the block list                             *)
EditFilteredHitCounts(d, idx) ==
    IF TruthyList(d.hit_counts) THEN Some(Pick(Val(d.hit_counts), idx)) ELSE d.hit_counts

FilterKept(d, keep) ==
    IF TruthyList(d.hit_counts)
       /\ \E k \in DOMAIN KeptBlockIndices(d, keep) :
              KeptBlockIndices(d, keep)[k] > Len(Val(d.hit_counts))
    THEN Edited("IndexError", d, FALSE)
    ELSE Edited("ok",
                Reindexed(Pick(d.modules, KeptModuleIndices(d, keep)),
                          Pick(d.basic_blocks, KeptBlockIndices(d, keep)),
                          EditFilteredHitCounts(d, KeptBlockIndices(d, keep)),
                          d.module_version, d.flavor),
                TRUE)

(* Lines 558-612                                                           *)
edit_filter(d, patterns) == FilterKept(d, modules_to_keep(d, patterns))

(* The file edit loads: strictly valid, blocks at distinct starts, hit     *)
(* counts absent or aligned                                                *)
EditNames == {<<"b">>, <<"C">>, <<"z">>, <<>>}
EditOffsets == {-32, 16}

InitEdit ==
    /\ \E ids \in {<<0>>, <<0, 1>>} :
         \E mids \in SeqsUpTo(Range(ids), MaxBlocks), hit \in BOOLEAN :
            doc = CoverageData(IF hit THEN _FLAVOR_WITH_HITS ELSE _FLAVOR_STANDARD,
                               [i \in DOMAIN ids |-> SetModule(1, ids[i])],
                               BlocksInModules(mids), V2,
                               IF hit THEN Some([k \in DOMAIN mids |-> 10 + k]) ELSE None)
    /\ pre = doc
    /\ file = NoFile
    /\ rdoc = NoDoc
    /\ out = [op |-> "none", status |-> "ok", permissive |-> TRUE, arg |-> <<>>,
              modified |-> FALSE]

EditStep(op, arg, r) ==
    /\ doc' = r.doc
    /\ pre' = doc
    /\ out' = [op |-> op, status |-> r.status, permissive |-> TRUE, arg |-> arg,
               modified |-> (out.modified \/ r.modified)]
    /\ UNCHANGED <<file, rdoc>>

EditRebase ==
    /\ out.op \in {"none", "rebase"}
    /\ \E module_name \in EditNames, new_addr \in NewBases :
           EditStep("rebase", module_name, edit_rebase(doc, module_name, new_addr))

EditAdjustOffsets ==
    /\ out.op \in {"none", "rebase", "adjust_offsets"}
    /\ \E module_name \in EditNames, offset \in EditOffsets :
           /\ \A i \in DOMAIN doc.basic_blocks : doc.basic_blocks[i].start + offset <= MaxStart
           /\ EditStep("adjust_offsets", <<module_name, offset>>,
                       edit_adjust_offsets(doc, module_name, offset))

EditFilter ==
    /\ out.op \in {"none", "rebase", "adjust_offsets"}
    /\ \E patterns \in SUBSET EditNames \ {{}} :
           EditStep("filter", patterns, edit_filter(doc, patterns))

(* Lines 614-617: coverage.write_to_file(output) when something changed    *)
EditWrite ==
    /\ out.op \in {"rebase", "adjust_offsets", "filter"}
    /\ out.modified
    /\ file' = write_to_file(CoverageSet(doc)).file
    /\ out' = [op |-> "write", status |-> write_to_file(CoverageSet(doc)).status,
               permissive |-> TRUE, arg |-> <<>>, modified |-> TRUE]
    /\ pre' = doc
    /\ UNCHANGED <<doc, rdoc>>

NextEdit == EditRebase \/ EditAdjustOffsets \/ EditFilter \/ EditWrite

SpecEdit == InitEdit /\ [][NextEdit]_vars

(* The indices, in the block list before the last operation, of the blocks *)
(* that operation kept                                                     *)
Remaining ==
    IF out.op = "adjust_offsets" /\ out.status = "ok"
    THEN {i \in DOMAIN pre.basic_blocks :
             \/ ~Matches(pre.modules[CHOOSE m \in DOMAIN pre.modules :
                                        pre.modules[m].id = pre.basic_blocks[i].module_id],
                         out.arg[1])
             \/ pre.basic_blocks[i].start + out.arg[2] >= 0}
    ELSE IF out.op = "filter" /\ out.status = "ok"
    THEN {i \in DOMAIN pre.basic_blocks :
             pre.basic_blocks[i].module_id \in modules_to_keep(pre, out.arg)}
    ELSE DOMAIN pre.basic_blocks

Nth(S, k) == CHOOSE i \in S : Cardinality({j \in S : j < i}) = k - 1

Aligned(d) == d.hit_counts = None \/ Len(Val(d.hit_counts)) = Len(d.basic_blocks)

(* C27: after each of edit's operations the hit-count list is absent or as *)
(* long as the block list, each remaining block has the count it had       *)
(* before the operation, and the edited document passes strict validation  *)
(* when it is written.                                                     *)
C27_EditKeepsHitCounts ==
    out.op \in {"rebase", "adjust_offsets", "filter", "write"} =>
        /\ Aligned(doc)
        /\ (Aligned(pre) /\ pre.hit_counts # None) =>
               /\ doc.hit_counts # None
               /\ Len(Val(doc.hit_counts)) = Cardinality(Remaining)
               /\ \A k \in 1..Cardinality(Remaining) :
                      Val(doc.hit_counts)[k] = Val(pre.hit_counts)[Nth(Remaining, k)]
        /\ out.op = "write" => out.status = "ok"

=============================================================================
